---- MODULE Spec2Model ----
(***************************************************************************)
(* A model of the request-lifecycle core of majordomo-gateway:             *)
(*   - the operator-key resolver  (src/internal/auth/resolver.go)          *)
(*   - the proxy-key resolver     (src/unnamed/part_012)                   *)
(*   - the log sink               (src/unnamed/part_009),                  *)
(*     the active-keys cache      (src/unnamed/part_011) and               *)
(*     the HLL manager            (src/internal/api/jwt_middleware.go)     *)
(*   - the pricing service        (src/internal/pricing/service.go)        *)
(* Each component has its own specification (SpecResolver, SpecProxy,      *)
(* SpecSink, SpecPricing); a specification leaves the variables of the     *)
(* other components unchanged.  The clock advances in the specifications   *)
(* of the two resolvers; the log sink and the pricing service are explored *)
(* at one instant of the clock.                                            *)
(***************************************************************************)
EXTENDS Integers, Sequences, FiniteSets, TLC

(***************************************************************************)
(* Bounds of the model.                                                    *)
(***************************************************************************)
\* The clock runs from 0 to MaxTime ticks.
MaxTime == 2
\* Cache time-to-live in clock ticks (5 minutes in the program).
CacheTTL == 1
\* Capacity of the log channel (1000 in the program).
LogChanCap == 2
\* The number of rows offered to the log sink in a behaviour.
MaxRows == 3
\* The longest messages array of a request that is translated.
MaxMessages == 3
\* The width of Go's int in the model (64 bits in the program).
IntBits == 4
\* The longest plaintext given to the secret box, and the octets of a GCM
\* nonce in the model (12 in the program).
MaxPlain == 3
NonceSize == 2
\* Capacity of the upload channel (1000 in the program).
UploadChanCap == 1
\* The most requests in flight in the server at once.
MaxInflight == 2
\* Length an error message is cut to (500 bytes in the program).
ErrorMessageLimit == 2

VARIABLES
    now,        \* the wall clock read by time.Now()
    \* ---- operator-key resolver --------------------------------------
    apiKeys,    \* table api_keys, by key_hash
    rCache,     \* Resolver.cache, by key_hash
    rPc,        \* position of each caller's ResolveAPIKey call
    rArg,       \* the apiKey argument of the call
    rKey,       \* local variable `key` (result of GetAPIKeyByHash)
    rRes,       \* the value a call returned in the step just taken (none otherwise)
    rBump,      \* the call started the UpdateAPIKeyLastUsed goroutine
    rRevInv,    \* history: revoked / revoked-then-invalidated, by key_hash
    rNext,      \* history: this call is the first one after revoke+invalidate
    rActive,    \* history: the key's record was active when the call began
    \* ---- proxy-key resolver -----------------------------------------
    proxyKeys,  \* table proxy_keys, by key_hash
    mappings,   \* table proxy_key_provider_mappings, by <<proxy_key_id, provider>>
    pCache,     \* ProxyResolver.cache, by key_hash
    provCache,  \* ProxyResolver.provCache: a map from "hash:provider" strings
    pPc,        \* position of each caller's ResolveProxyKey call
    pArg,       \* its arguments (authKey, provider, majordomoKeyID)
    pKey,       \* local variable `proxyKey`
    pDec,       \* local variable `decrypted`
    pRes,       \* the value a call returned in the step just taken (none otherwise)
    pWiped,     \* history: digests invalidated since the last call for them began
    provReadAt, \* history, when kept: the time each entry of provCache was put there
    \* ---- log sink, active-keys cache, HLL manager ---------------------
    logChan,    \* PostgresStorage.logChan: the rows queued
    nextId,     \* the id the next row offered to WriteRequestLog gets
    accepted,   \* history: ids of the rows the channel took, in order
    dropped,    \* history: ids of the rows WriteRequestLog dropped
    handled,    \* history: ids of the rows handed to writeLog, in order
    written,    \* table llm_requests: the rows inserted, in order
    wPc,        \* position of the writeLoop goroutine
    wDrain,     \* writeLoop took the done branch and is draining
    wRow,       \* the row writeLog is working on
    done,       \* PostgresStorage.done is closed
    dbOpen,     \* the *sqlx.DB is open
    closePc,    \* position of PostgresStorage.Close
    metaKeys,   \* table llm_requests_metadata_keys of the owner, by key_name
    akCache,    \* ActiveKeysCache.cache entry of the owner
    hlls,       \* HLLManager.hlls, by key_name
    hllDone,    \* HLLManager.done is closed
    fPc,        \* position of the flushLoop goroutine
    fFinal,     \* the Flush in progress is the final one
    toFlush,    \* local variable toFlush of Flush
    \* ---- pricing service ----------------------------------------------
    pricing,    \* Service.pricing: model id -> ModelPricing
    aliases,    \* Service.aliases: API model name -> pricing model name
    prDone,     \* Service.done is closed
    prPc,       \* position of the refreshLoop goroutine
    prFetch,    \* the HTTP exchange of the fetchRemote of the step just taken
    prErr,      \* fetchRemote returned an error in the step just taken
    prCost,     \* the value Calculate returned in the step just taken
    prCalc,     \* the Calculate call that holds the read lock, if any
    prNew,      \* the map fetchRemote built and waits to store
    \* The request handler
    hCfg,       \* config.Logging.BodyStorage
    hPc,        \* where ServeHTTP is
    hReq,       \* the request in the handler
    hInfo,      \* what ResolveAPIKey returned for it
    hUp,        \* the request Forward built for the provider
    hResp,      \* the response of the provider
    hOut,       \* what has been written to the caller
    lPc,        \* where the logRequest goroutine is
    lLog,       \* the row logRequest is assembling
    lRow,       \* the row passed to WriteRequestLog
    lUpload,    \* the upload passed to S3BodyStorage.Upload
    \* Pure functions of the provider package, applied to inputs
    dPath,      \* Detect: the request path
    dHeaders,   \* Detect: the x-majordomo-* headers, lower-cased names
    dInfo,      \* Detect: the provider returned, "none" before the call
    tBody,      \* TranslateOpenAIToAnthropic: the request body
    tOut,       \* TranslateOpenAIToAnthropic: what it returned
    aBody,      \* AnthropicParser.ParseResponse: the response body
    aMetrics,   \* AnthropicParser.ParseResponse: what it returned
    \* The secret box (AESStore)
    sKey,       \* the key of the store
    sPlain,     \* the plaintext given to Encrypt
    sBox,       \* what Encrypt returned
    sOut,       \* what Decrypt returned for it
    \* The active-keys cache called on its own
    akRes,      \* what GetActiveKeys returned in the step just taken
    akPc,       \* where a GetActiveKeys call in flight is
    akFetched,  \* what fetchActiveKeys returned to the call in flight
    akStale     \* history: whether the set held by the call in flight, and
                \* the set of the cache entry, was read before the last
                \* InvalidateAPIKey
    ,
    \* The serve command (runServe) and the S3 uploader
    svPc,       \* where runServe is
    svS3,       \* cfg.S3.Enabled: an S3BodyStorage was constructed
    svInflight, \* the requests the HTTP server is serving
    uploadChan, \* S3BodyStorage.uploadChan: the keys of the uploads queued
    uDone,      \* S3BodyStorage.done is closed
    uPc         \* where the uploadLoop goroutine is

resolverVars == <<apiKeys, rCache, rPc, rArg, rKey, rRes, rBump, rRevInv, rNext, rActive>>

proxyVars ==
    <<proxyKeys, mappings, pCache, provCache, pPc, pArg, pKey, pDec, pRes, pWiped,
      provReadAt>>

sinkVars ==
    <<logChan, nextId, accepted, dropped, handled, written, wPc, wDrain, wRow, done,
      dbOpen, closePc, metaKeys, akCache, hlls, hllDone, fPc, fFinal, toFlush>>

pricingVars == <<pricing, aliases, prDone, prPc, prFetch, prErr, prCost, prCalc, prNew>>

handlerVars == <<hCfg, hPc, hReq, hInfo, hUp, hResp, hOut, lPc, lLog, lRow, lUpload>>

detectVars == <<dPath, dHeaders, dInfo>>
translateVars == <<tBody, tOut>>
parserVars == <<aBody, aMetrics>>
secretsVars == <<sKey, sPlain, sBox, sOut>>
codecVars == <<detectVars, translateVars, parserVars, secretsVars>>
lookupVars == <<akRes, akPc, akFetched, akStale>>
serveVars == <<svPc, svS3, svInflight, uploadChan, uDone, uPc>>
stateVars ==
    <<now, resolverVars, proxyVars, sinkVars, pricingVars, handlerVars, lookupVars,
      serveVars>>

vars ==
    <<now, resolverVars, proxyVars, sinkVars, pricingVars, handlerVars, codecVars,
      lookupVars, serveVars>>

(***************************************************************************)
(* Strings.  A key or a digest is a sequence of symbols, so that prefix    *)
(* tests and concatenations are computed, not assumed.                     *)
(***************************************************************************)
Contains(s, p) == \E i \in 1..Len(s) : SubSeq(s, i, i + Len(p) - 1) = p
HasSubstring(s, p) == Contains(s, p)
HasPrefix(s, p) == Len(s) >= Len(p) /\ SubSeq(s, 1, Len(p)) = p

EmptyKey == << >>
OperatorKeys == { <<"mdm_sk_", "1">>, <<"mdm_sk_", "2">> }

\* HashAPIKey: hex(sha256(key)): injective on the keys of the model and of
\* fixed width (two symbols here, 64 hex digits in the program).
HashAPIKey(key) ==
    CASE key = <<"mdm_sk_", "1">> -> <<"a", "1">>
      [] key = <<"mdm_sk_", "2">> -> <<"a", "2">>
      [] key = <<"mdm_pk_", "1">> -> <<"b", "1">>
      [] key = <<"mdm_pk_", "2">> -> <<"b", "2">>
      [] key = <<"sk-up">>        -> <<"c", "1">>
      [] OTHER                    -> <<"e", "0">>

OperatorHashes == { HashAPIKey(k) : k \in OperatorKeys }

(***************************************************************************)
(* The clock.                                                              *)
(***************************************************************************)
Tick ==
    /\ now < MaxTime
    /\ now' = now + 1

(***************************************************************************)
(* Operator-key resolver (internal/auth/resolver.go).                      *)
(***************************************************************************)
Callers == {"c1", "c2"}

\* models.APIKey rows; present = FALSE stands for "no row" (nil).
NoAPIKey == [present |-> FALSE, id |-> "none", active |-> FALSE, revoked |-> FALSE]
APIKeyRow(id, active, revoked) ==
    [present |-> TRUE, id |-> id, active |-> active, revoked |-> revoked]

\* The id of the row stored under a digest.
KeyIdOf(h) == IF h = <<"a", "1">> THEN "A" ELSE "B"

\* The states a row of api_keys can be in: absent, active, deactivated
\* without a revocation instant, revoked.
APIKeyStates(h) ==
    { NoAPIKey,
      APIKeyRow(KeyIdOf(h), TRUE, FALSE),
      APIKeyRow(KeyIdOf(h), FALSE, FALSE),
      APIKeyRow(KeyIdOf(h), FALSE, TRUE) }

\* cachedKey; present = FALSE stands for "no map entry".
NoCachedKey == [present |-> FALSE, isValid |-> FALSE, info |-> "none", expiresAt |-> 0]

\* What a ResolveAPIKey call returns: the failure kind or "ok" with the
\* APIKeyInfo; next and wasActive copy the history variables of the call.
NoResult ==
    [caller |-> "none", kind |-> "none", info |-> "none", hash |-> << >>,
     next |-> FALSE, wasActive |-> FALSE]
Result(kind, info, h) ==
    [caller |-> "none", kind |-> kind, info |-> info, hash |-> h,
     next |-> FALSE, wasActive |-> FALSE]

\* The resolver after NewResolver, no call made.
ResolverConstructed ==
    /\ rCache = [h \in OperatorHashes |-> NoCachedKey]
    /\ rPc = [c \in Callers |-> "idle"]
    /\ rArg = [c \in Callers |-> EmptyKey]
    /\ rKey = [c \in Callers |-> NoAPIKey]
    /\ rRes = NoResult
    /\ rBump = [c \in Callers |-> FALSE]
    /\ rRevInv = [h \in OperatorHashes |-> "none"]
    /\ rNext = [c \in Callers |-> FALSE]
    /\ rActive = [c \in Callers |-> FALSE]

ResolverInit ==
    /\ apiKeys \in { f \in [OperatorHashes -> UNION { APIKeyStates(h) : h \in OperatorHashes }] :
                        \A h \in OperatorHashes : f[h] \in APIKeyStates(h) }
    /\ ResolverConstructed

\* The operator-key resolver when it is not exercised.
ResolverIdle ==
    /\ apiKeys = [h \in OperatorHashes |-> NoAPIKey]
    /\ ResolverConstructed

\* The entry whatever its expiry.
getFromCacheWhateverExpiry(h) == rCache[h]

\* getFromCache: the entry, or nil when absent or expired.
getFromCache(h) ==
    IF ~rCache[h].present THEN NoCachedKey
    ELSE IF now > rCache[h].expiresAt THEN NoCachedKey
    ELSE rCache[h]

\* A positive entry written as a negative one.
cacheValidAsInvalid(info) ==
    [present |-> TRUE, isValid |-> FALSE, info |-> "none", expiresAt |-> now + CacheTTL]

\* cacheValid / cacheInvalid: the entry written.
cacheValid(info) ==
    [present |-> TRUE, isValid |-> TRUE, info |-> info, expiresAt |-> now + CacheTTL]
cacheInvalid ==
    [present |-> TRUE, isValid |-> FALSE, info |-> "none", expiresAt |-> now + CacheTTL]

\* The call of caller c returns res; its locals die with it.
ResolveAPIKeyReturn(c, res, next, wasActive) ==
    /\ rRes' = [res EXCEPT !.caller = c, !.next = next, !.wasActive = wasActive]
    /\ rPc' = [rPc EXCEPT ![c] = "idle"]
    /\ rArg' = [rArg EXCEPT ![c] = EmptyKey]
    /\ rKey' = [rKey EXCEPT ![c] = NoAPIKey]
    /\ rNext' = [rNext EXCEPT ![c] = FALSE]
    /\ rActive' = [rActive EXCEPT ![c] = FALSE]

\* Lines 43-56: a caller enters ResolveAPIKey(apiKey): the empty-key test
\* and the cache lookup.  A miss leaves the call at the store query.
ResolveAPIKey(c, k) ==
    /\ rPc[c] = "idle"
    /\ LET h == HashAPIKey(k)
           next == k # EmptyKey /\ rRevInv[h] = "invalidated"
           wasActive == k # EmptyKey /\ apiKeys[h].present /\ apiKeys[h].active
       IN /\ rRevInv' = IF next THEN [rRevInv EXCEPT ![h] = "none"] ELSE rRevInv
          /\ IF k = EmptyKey
             THEN ResolveAPIKeyReturn(c, Result("InvalidKey", "none", << >>), FALSE, FALSE)
             ELSE IF getFromCache(h).present
             THEN IF ~getFromCache(h).isValid
                  THEN ResolveAPIKeyReturn(c, Result("Inactive", "none", h), next, wasActive)
                  ELSE ResolveAPIKeyReturn(c, Result("ok", getFromCache(h).info, h),
                                           next, wasActive)
             ELSE /\ rPc' = [rPc EXCEPT ![c] = "db"]
                  /\ rArg' = [rArg EXCEPT ![c] = k]
                  /\ rNext' = [rNext EXCEPT ![c] = next]
                  /\ rActive' = [rActive EXCEPT ![c] = wasActive]
                  /\ rRes' = NoResult
                  /\ UNCHANGED rKey
    /\ rBump' = [rBump EXCEPT ![c] = FALSE]
    /\ UNCHANGED <<now, apiKeys, rCache>>

\* Lines 59-62: GetAPIKeyByHash, which answers with the row, nil, or an error.
ResolveAPIKeyLookup(c) ==
    /\ rPc[c] = "db"
    /\ LET h == HashAPIKey(rArg[c]) IN
         \/ /\ rKey' = [rKey EXCEPT ![c] = apiKeys[h]]
            /\ rPc' = [rPc EXCEPT ![c] = "fill"]
            /\ rRes' = NoResult
            /\ UNCHANGED <<rArg, rNext, rActive>>
         \/ ResolveAPIKeyReturn(c, Result("StoreErr", "none", h), rNext[c], rActive[c])
    /\ UNCHANGED <<now, apiKeys, rCache, rBump, rRevInv>>

\* Lines 64-93: the verdict on the row read, cached and returned; a success
\* starts the goroutine that bumps last_used_at and request_count.
ResolveAPIKeyFill(c) ==
    /\ rPc[c] = "fill"
    /\ LET h == HashAPIKey(rArg[c])
           key == rKey[c]
       IN IF ~key.present
          THEN /\ rCache' = [rCache EXCEPT ![h] = cacheInvalid]
               /\ ResolveAPIKeyReturn(c, Result("InvalidKey", "none", h), rNext[c], rActive[c])
               /\ UNCHANGED rBump
          ELSE IF ~key.active
          THEN /\ rCache' = [rCache EXCEPT ![h] = cacheInvalid]
               /\ ResolveAPIKeyReturn(c, IF key.revoked THEN Result("Revoked", "none", h)
                                                        ELSE Result("Inactive", "none", h),
                                      rNext[c], rActive[c])
               /\ UNCHANGED rBump
          ELSE /\ rCache' = [rCache EXCEPT ![h] = cacheValid(key.id)]
               /\ ResolveAPIKeyReturn(c, Result("ok", key.id, h), rNext[c], rActive[c])
               /\ rBump' = [rBump EXCEPT ![c] = TRUE]
    /\ UNCHANGED <<now, apiKeys, rRevInv>>

\* Resolver.InvalidateCache(hash).
ResolverInvalidateCache(h) ==
    /\ rCache' = [rCache EXCEPT ![h] = NoCachedKey]
    /\ rRevInv' = [rRevInv EXCEPT ![h] = IF @ = "revoked" THEN "invalidated" ELSE @]
    /\ rRes' = NoResult
    /\ UNCHANGED <<now, apiKeys, rPc, rArg, rKey, rBump, rNext, rActive>>

\* PostgresStorage.RevokeAPIKey(id): UPDATE ... WHERE id = $2 AND is_active;
\* AdminHandler.RevokeAPIKey does this and nothing else.
RevokeAPIKey(h) ==
    /\ apiKeys[h].present /\ apiKeys[h].active
    /\ apiKeys' = [apiKeys EXCEPT ![h] = APIKeyRow(@.id, FALSE, TRUE)]
    /\ rRevInv' = [rRevInv EXCEPT ![h] = "revoked"]
    /\ rRes' = NoResult
    /\ UNCHANGED <<now, rCache, rPc, rArg, rKey, rBump, rNext, rActive>>

\* Time passes in the operator-key resolver.
ResolverTick ==
    /\ Tick
    /\ rRes' = NoResult
    /\ UNCHANGED <<apiKeys, rCache, rPc, rArg, rKey, rBump, rRevInv, rNext, rActive>>

(***************************************************************************)
(* Proxy-key resolver (ProxyResolver, src/unnamed/part_012).               *)
(***************************************************************************)
ProxyKeyPrefix == <<"mdm_pk_">>
ProxyKeys == { <<"mdm_pk_", "1">>, <<"mdm_pk_", "2">> }
UpstreamKey == <<"sk-up">>

\* The Authorization values a caller sends: proxy keys, a provider key, a
\* value that holds the proxy prefix but not at its start, and no value.
AuthKeys == ProxyKeys \cup { UpstreamKey, <<"x", "mdm_pk_">>, << >> }
ProxyHashes == { HashAPIKey(k) : k \in ProxyKeys }
OpenAI == <<"o", "a", "i">>
Anthropic == <<"a", "n">>
Providers == { OpenAI, Anthropic }
OperatorIds == {"A", "B"}

\* models.ProxyKey rows; present = FALSE stands for nil.
NoProxyKey ==
    [present |-> FALSE, id |-> "none", owner |-> "none", active |-> FALSE, revoked |-> FALSE]
ProxyKeyRow(id, owner, active, revoked) ==
    [present |-> TRUE, id |-> id, owner |-> owner, active |-> active, revoked |-> revoked]

\* The id and the owner (majordomo_api_key_id) of the row stored under a
\* digest; neither is ever updated by the program.
ProxyIdOf(h) == IF h = <<"b", "1">> THEN "P1" ELSE "P2"
ProxyOwnerOf(h) == IF h = <<"b", "1">> THEN "A" ELSE "B"
ProxyIds == { ProxyIdOf(h) : h \in ProxyHashes }

\* models.ProviderMapping.EncryptedKey: a token of the secret box, sound or
\* not; Decrypt gives the plaintext of a sound token and fails otherwise.
NoMapping == [present |-> FALSE, sound |-> FALSE, plain |-> "none"]
Mapping(sound, plain) == [present |-> TRUE, sound |-> sound, plain |-> plain]
DecryptOk(m) == m.sound
Decrypt(m) == m.plain
CredentialOf(id, provider) == <<"sk-real", id, provider>>

\* cachedProxyKey; present = FALSE stands for "no map entry".
NoCachedProxyKey ==
    [present |-> FALSE, proxyKeyID |-> "none", majordomoAPIKeyID |-> "none",
     isActive |-> FALSE, expiresAt |-> 0]

\* provCacheKey := hash + ":" + provider
ProvCacheKey(h, provider) == h \o <<":">> \o provider

NoProxyArg == [authKey |-> << >>, provider |-> << >>, majordomoKeyID |-> "none"]
ProxyArg(authKey, provider, majordomoKeyID) ==
    [authKey |-> authKey, provider |-> provider, majordomoKeyID |-> majordomoKeyID]

\* What a ResolveProxyKey call returns: (providerKey, proxyKeyID, err).
NoProxyResult ==
    [caller |-> "none", majordomoKeyID |-> "none", kind |-> "none", cred |-> "none",
     id |-> "none", hash |-> << >>, cached |-> FALSE, authKey |-> << >>]
ProxyResult(kind, cred, id, h, cached) ==
    [caller |-> "none", majordomoKeyID |-> "none", kind |-> kind, cred |-> cred,
     id |-> id, hash |-> h, cached |-> cached, authKey |-> << >>]

\* The proxy resolver after NewProxyResolver, no call made.
ProxyConstructed ==
    /\ pCache = [h \in ProxyHashes |-> NoCachedProxyKey]
    /\ provCache = << >>
    /\ pPc = [c \in Callers |-> "idle"]
    /\ pArg = [c \in Callers |-> NoProxyArg]
    /\ pKey = [c \in Callers |-> NoProxyKey]
    /\ pDec = [c \in Callers |-> "none"]
    /\ pRes = NoProxyResult
    /\ pWiped = {}

\* The proxy resolver when it is not exercised.
ProxyIdle ==
    /\ proxyKeys = [h \in ProxyHashes |-> NoProxyKey]
    /\ mappings = [m \in ProxyIds \X Providers |-> NoMapping]
    /\ ProxyConstructed
    /\ provReadAt = [kept |-> FALSE, at |-> << >>]

\* The store a proxy resolver is started on.  The first key is active; the
\* second is active, deactivated, or has no row.  The first key has a mapping for each
\* provider; the second key has a mapping for the first provider only, with
\* a token that does not decrypt.
InitialMapping(id, provider) ==
    IF id = "P1" THEN Mapping(TRUE, CredentialOf(id, provider))
    ELSE IF provider = OpenAI THEN Mapping(FALSE, CredentialOf(id, provider))
    ELSE NoMapping

ProxyStore ==
    /\ \E present2, active2 \in BOOLEAN :
         /\ present2 \/ active2
         /\ proxyKeys = [h \in ProxyHashes |->
                          IF h = <<"b", "1">> \/ present2
                          THEN ProxyKeyRow(ProxyIdOf(h), ProxyOwnerOf(h),
                                           h = <<"b", "1">> \/ active2, FALSE)
                          ELSE NoProxyKey]
    /\ mappings = [m \in ProxyIds \X Providers |-> InitialMapping(m[1], m[2])]

\* The history of the credential cache is kept only in the specification
\* of its expiry (ProxyInitTimed).
ProxyInit ==
    /\ ProxyStore
    /\ ProxyConstructed
    /\ provReadAt = [kept |-> FALSE, at |-> << >>]
ProxyInitTimed ==
    /\ ProxyStore
    /\ ProxyConstructed
    /\ provReadAt = [kept |-> TRUE, at |-> << >>]

\* The call of caller c, made with arguments a, returns res; its locals
\* die with it.
ResolveProxyKeyReturn(c, a, res) ==
    /\ pRes' = [res EXCEPT !.caller = c, !.majordomoKeyID = a.majordomoKeyID,
                            !.authKey = a.authKey]
    /\ pPc' = [pPc EXCEPT ![c] = "idle"]
    /\ pArg' = [pArg EXCEPT ![c] = NoProxyArg]
    /\ pKey' = [pKey EXCEPT ![c] = NoProxyKey]
    /\ pDec' = [pDec EXCEPT ![c] = "none"]

\* Lines 131-141: the credential cache is consulted first, then the record
\* cache for the expiry and the id.
ProvCacheHit(h, provider) ==
    /\ ProvCacheKey(h, provider) \in DOMAIN provCache
    /\ pCache[h].present
    /\ now < pCache[h].expiresAt

\* Lines 124-141: a caller enters ResolveProxyKey(authKey, provider,
\* majordomoKeyID): the prefix test and the cache lookups under RLock.
\* A miss leaves the call at the store query.
ResolveProxyKey(c, authKey, provider, majordomoKeyID) ==
    /\ pPc[c] = "idle"
    /\ LET a == ProxyArg(authKey, provider, majordomoKeyID)
           h == HashAPIKey(authKey)
       IN IF ~HasPrefix(authKey, ProxyKeyPrefix)
          THEN ResolveProxyKeyReturn(c, a,
                   ProxyResult("passthrough", "none", "none", << >>, FALSE))
          ELSE IF ProvCacheHit(h, provider)
          THEN ResolveProxyKeyReturn(c, a,
                   ProxyResult("ok", provCache[ProvCacheKey(h, provider)],
                               pCache[h].proxyKeyID, h, TRUE))
          ELSE /\ pPc' = [pPc EXCEPT ![c] = "key"]
               /\ pArg' = [pArg EXCEPT ![c] = a]
               /\ pRes' = NoProxyResult
               /\ UNCHANGED <<pKey, pDec>>
    /\ pWiped' = pWiped \ {HashAPIKey(authKey)}
    /\ UNCHANGED <<now, proxyKeys, mappings, pCache, provCache, provReadAt>>

\* Lines 147-161: the checks on the row GetProxyKeyByHash returned, in the
\* order of the code; "pass" when the row passes them all.
RowFailureOwnerFirst(proxyKey, majordomoKeyID) ==
    IF ~proxyKey.present THEN "ProxyNotFound"
    ELSE IF proxyKey.owner # majordomoKeyID THEN "WrongOwner"
    ELSE IF ~proxyKey.active
    THEN (IF proxyKey.revoked THEN "ProxyRevoked" ELSE "ProxyInactive")
    ELSE "pass"
RowFailure(proxyKey, majordomoKeyID) ==
    IF ~proxyKey.present THEN "ProxyNotFound"
    ELSE IF ~proxyKey.active
    THEN (IF proxyKey.revoked THEN "ProxyRevoked" ELSE "ProxyInactive")
    ELSE IF proxyKey.owner # majordomoKeyID THEN "WrongOwner"
    ELSE "pass"

\* Lines 144-161: GetProxyKeyByHash and the checks on the row.
ResolveProxyKeyLookup(c) ==
    /\ pPc[c] = "key"
    /\ LET a == pArg[c]
           h == HashAPIKey(a.authKey)
           proxyKey == proxyKeys[h]
       IN \/ ResolveProxyKeyReturn(c, a, ProxyResult("StoreErr", "none", "none", h, FALSE))
          \/ IF RowFailure(proxyKey, a.majordomoKeyID) # "pass"
             THEN ResolveProxyKeyReturn(c, a,
                      ProxyResult(RowFailure(proxyKey, a.majordomoKeyID),
                                  "none", "none", h, FALSE))
             ELSE /\ pKey' = [pKey EXCEPT ![c] = proxyKey]
                  /\ pPc' = [pPc EXCEPT ![c] = "mapping"]
                  /\ pRes' = NoProxyResult
                  /\ UNCHANGED <<pArg, pDec>>
    /\ UNCHANGED <<now, proxyKeys, mappings, pCache, provCache, pWiped, provReadAt>>

\* Lines 164-176: GetProviderMapping and Decrypt.
ResolveProxyKeyMappingCaching(c) ==
    /\ pPc[c] = "mapping"
    /\ LET a == pArg[c]
           h == HashAPIKey(a.authKey)
           mapping == mappings[<<pKey[c].id, a.provider>>]
       IN \/ /\ ResolveProxyKeyReturn(c, a, ProxyResult("StoreErr", "none", "none", h, FALSE))
             /\ UNCHANGED pCache
          \/ IF ~mapping.present \/ ~DecryptOk(mapping)
             THEN /\ ResolveProxyKeyReturn(c, a,
                         ProxyResult(IF mapping.present THEN "CipherFail"
                                     ELSE "NoProviderMapping", "none", "none", h, FALSE))
                  /\ pCache' = [pCache EXCEPT ![h] =
                        [present |-> TRUE, proxyKeyID |-> pKey[c].id,
                         majordomoAPIKeyID |-> pKey[c].owner, isActive |-> pKey[c].active,
                         expiresAt |-> now + CacheTTL]]
             ELSE /\ pDec' = [pDec EXCEPT ![c] = Decrypt(mapping)]
                  /\ pPc' = [pPc EXCEPT ![c] = "fill"]
                  /\ pRes' = NoProxyResult
                  /\ UNCHANGED <<pArg, pKey, pCache>>
    /\ UNCHANGED <<now, proxyKeys, mappings, provCache, pWiped, provReadAt>>
ResolveProxyKeyMapping(c) ==
    /\ pPc[c] = "mapping"
    /\ LET a == pArg[c]
           h == HashAPIKey(a.authKey)
           mapping == mappings[<<pKey[c].id, a.provider>>]
       IN \/ ResolveProxyKeyReturn(c, a, ProxyResult("StoreErr", "none", "none", h, FALSE))
          \/ IF ~mapping.present
             THEN ResolveProxyKeyReturn(c, a,
                      ProxyResult("NoProviderMapping", "none", "none", h, FALSE))
             ELSE IF ~DecryptOk(mapping)
             THEN ResolveProxyKeyReturn(c, a, ProxyResult("CipherFail", "none", "none", h, FALSE))
             ELSE /\ pDec' = [pDec EXCEPT ![c] = Decrypt(mapping)]
                  /\ pPc' = [pPc EXCEPT ![c] = "fill"]
                  /\ pRes' = NoProxyResult
                  /\ UNCHANGED <<pArg, pKey>>
    /\ UNCHANGED <<now, proxyKeys, mappings, pCache, provCache, pWiped, provReadAt>>

\* m[k] = v on a Go map.
MapPut(f, k, v) == [x \in DOMAIN f \cup {k} |-> IF x = k THEN v ELSE f[x]]

\* Lines 179-198: both caches are populated under Lock and the credential
\* is returned.
ResolveProxyKeyFill(c) ==
    /\ pPc[c] = "fill"
    /\ LET a == pArg[c]
           h == HashAPIKey(a.authKey)
       IN /\ pCache' = [pCache EXCEPT ![h] =
                [present |-> TRUE, proxyKeyID |-> pKey[c].id,
                 majordomoAPIKeyID |-> pKey[c].owner, isActive |-> pKey[c].active,
                 expiresAt |-> now + CacheTTL]]
          /\ provCache' = MapPut(provCache, ProvCacheKey(h, a.provider), pDec[c])
          /\ provReadAt' = IF ~provReadAt.kept THEN provReadAt
                           ELSE [provReadAt EXCEPT
                                    !.at = MapPut(@, ProvCacheKey(h, a.provider), now)]
          /\ ResolveProxyKeyReturn(c, a, ProxyResult("ok", pDec[c], pKey[c].id, h, FALSE))
    /\ UNCHANGED <<now, proxyKeys, mappings, pWiped>>

\* Lines 207-212: the scan of provCache that deletes every key with the
\* prefix hash + ":"; the map that is left.
ProvCacheWithout(h) ==
    [k \in { x \in DOMAIN provCache : ~HasPrefix(x, h \o <<":">>) } |-> provCache[k]]

\* Lines 202-213: InvalidateCache(hash).
ProxyInvalidateCache(h) ==
    /\ pCache' = [pCache EXCEPT ![h] = NoCachedProxyKey]
    /\ provCache' = ProvCacheWithout(h)
    /\ provReadAt' = IF ~provReadAt.kept THEN provReadAt
                     ELSE [provReadAt EXCEPT
                              !.at = [k \in DOMAIN ProvCacheWithout(h) |-> @[k]]]
    /\ pWiped' = pWiped \cup {h}
    /\ pRes' = NoProxyResult
    /\ UNCHANGED <<now, proxyKeys, mappings, pPc, pArg, pKey, pDec>>

\* PostgresStorage.RevokeProxyKey: UPDATE ... WHERE id = $2 AND is_active.
RevokeProxyKey(h) ==
    /\ proxyKeys[h].present /\ proxyKeys[h].active
    /\ proxyKeys' = [proxyKeys EXCEPT ![h] = ProxyKeyRow(@.id, @.owner, FALSE, TRUE)]
    /\ pRes' = NoProxyResult
    /\ UNCHANGED <<now, mappings, pCache, provCache, pPc, pArg, pKey, pDec, pWiped,
                   provReadAt>>

\* Time passes in the proxy-key resolver.
ProxyTick ==
    /\ Tick
    /\ pRes' = NoProxyResult
    /\ UNCHANGED <<proxyKeys, mappings, pCache, provCache, pPc, pArg, pKey, pDec, pWiped,
                   provReadAt>>

\* Handler.SetProviderMapping and PostgresStorage.SetProviderMapping: the
\* owner stores a new credential for a provider of the proxy key; the
\* resolver's caches are not touched.
NewCredentialOf(id, provider) == <<"sk-new", id, provider>>
SetProviderMapping(id, provider) ==
    /\ mappings[<<id, provider>>] # Mapping(TRUE, NewCredentialOf(id, provider))
    /\ mappings' = [mappings EXCEPT ![<<id, provider>>] =
                       Mapping(TRUE, NewCredentialOf(id, provider))]
    /\ pRes' = NoProxyResult
    /\ UNCHANGED <<now, proxyKeys, pCache, provCache, pPc, pArg, pKey, pDec, pWiped,
                   provReadAt>>

(***************************************************************************)
(* Log sink (PostgresStorage, src/unnamed/part_009), active-keys cache     *)
(* (src/unnamed/part_011) and HLL manager (package storage).               *)
(***************************************************************************)
MetadataKeys == {"env", "team"}
NoOwner == "none"

\* A Go map[string]string with no entry.
EmptyMap == [k \in {} |-> "none"]

\* The X-Majordomo-* metadata a request can carry.
RawMetadata ==
    { [k \in {"env"} |-> "prod"],
      [k \in {"env", "team"} |-> IF k = "env" THEN "prod" ELSE "ml"] }

\* models.RequestLog: the fields the sink looks at.
NoRow == [id |-> 0, owner |-> NoOwner, raw |-> EmptyMap]
RequestLog(id, owner, raw) == [id |-> id, owner |-> owner, raw |-> raw]

\* A row of llm_requests_metadata_keys: the values its hll_state holds
\* (none: the column is NULL), whether the bytes of hll_state unmarshal,
\* its approx_cardinality and its request_count; registered = FALSE stands
\* for "no row".
NoMetaKey ==
    [registered |-> FALSE, active |-> FALSE, values |-> {}, sound |-> TRUE, card |-> 0,
     count |-> 0]

\* activeKeysEntry; present = FALSE stands for "no map entry".
NoActiveKeys == [present |-> FALSE, keys |-> {}, expiresAt |-> 0]

\* hllEntry: the sketch (the set of values inserted), dirty, count.
NoHLL == [present |-> FALSE, values |-> {}, dirty |-> FALSE, count |-> 0]

\* An entry of toFlush: the count copied, the sketch shared by pointer
\* (values: what the sketch held when the copy was made).
NoFlush == [present |-> FALSE, values |-> {}, count |-> 0]

\* The store after NewPostgresStorage, but for the sketches: both
\* goroutines started.
SinkStarted ==
    /\ logChan = << >>
    /\ nextId = 1
    /\ accepted = << >>
    /\ dropped = {}
    /\ handled = << >>
    /\ written = << >>
    /\ wPc = "loop"
    /\ wDrain = FALSE
    /\ wRow = NoRow
    /\ done = FALSE
    /\ dbOpen = TRUE
    /\ closePc = "running"
    /\ akCache = NoActiveKeys
    /\ hllDone = FALSE
    /\ fPc = "loop"
    /\ fFinal = FALSE
    /\ toFlush = [k \in MetadataKeys |-> NoFlush]

\* The store after NewPostgresStorage on a table without sketches.
SinkConstructed ==
    /\ SinkStarted
    /\ hlls = [k \in MetadataKeys |-> NoHLL]

\* The log sink when it is not exercised.
SinkIdle ==
    /\ metaKeys = [k \in MetadataKeys |-> NoMetaKey]
    /\ SinkConstructed

\* The metadata-key table the sink is started on: any set of keys is
\* registered with the activation flag set (by the operator, in the table:
\* no code of the gateway writes is_active), the others have no row yet.
SinkInit ==
    /\ \E act \in SUBSET MetadataKeys :
         metaKeys = [k \in MetadataKeys |->
                       IF k \in act THEN [NoMetaKey EXCEPT !.registered = TRUE, !.active = TRUE]
                       ELSE NoMetaKey]
    /\ SinkConstructed

CanSendAlways(q) == TRUE

\* The send case of the select in WriteRequestLog is ready.
CanSend(q) == Len(q) < LogChanCap

\* WriteRequestLog(log): select { case logChan <- log: default: drop }.
WriteRequestLog(owner, raw) ==
    /\ nextId <= MaxRows
    /\ nextId' = nextId + 1
    /\ IF CanSend(logChan)
       THEN /\ logChan' = Append(logChan, RequestLog(nextId, owner, raw))
            /\ accepted' = Append(accepted, nextId)
            /\ UNCHANGED dropped
       ELSE /\ dropped' = dropped \cup {nextId}
            /\ UNCHANGED <<logChan, accepted>>
    /\ UNCHANGED <<now, handled, written, wPc, wDrain, wRow, done, dbOpen, closePc,
                   metaKeys, akCache, hlls, hllDone, fPc, fFinal, toFlush>>

DequeueLast(q) == [row |-> q[Len(q)], rest |-> SubSeq(q, 1, Len(q) - 1)]

\* <-s.logChan: the row received and the channel that is left.
Dequeue(q) == [row |-> Head(q), rest |-> Tail(q)]

\* SELECT key_name ... WHERE is_active = true
ActiveKeysInStore == { k \in MetadataKeys : metaKeys[k].registered /\ metaKeys[k].active }

\* fetchActiveKeys lines 65-88: what it can return.  The query fails (an
\* empty set and no error), or the rows are read, but for those whose Scan
\* fails, and the iteration ends with or without an error; failed tells
\* whether the store reported any error.
fetchActiveKeys ==
    { [keys |-> {}, err |-> FALSE, failed |-> TRUE] }
    \cup
    IF dbOpen
    THEN { [keys |-> ActiveKeysInStore \ skipped, err |-> FALSE, failed |-> skipped # {}] :
             skipped \in SUBSET ActiveKeysInStore }
         \cup
         { [keys |-> read, err |-> TRUE, failed |-> TRUE] : read \in SUBSET ActiveKeysInStore }
    ELSE {}

\* The entry GetActiveKeys writes, lines 55-59.
ActiveKeysEntry(keys) == [present |-> TRUE, keys |-> keys, expiresAt |-> now + CacheTTL]

\* GetActiveKeys: what it can return and the cache entry it leaves.  A hit
\* returns the cached set.  On a miss the answer of fetchActiveKeys is
\* cached and returned, but for an error, which is returned with a nil map
\* and nothing cached.
GetActiveKeys ==
    IF akCache.present /\ now < akCache.expiresAt
    THEN { [keys |-> akCache.keys, cache |-> akCache, queried |-> FALSE, err |-> FALSE,
            failed |-> FALSE] }
    ELSE { [keys |-> IF f.err THEN {} ELSE f.keys,
            cache |-> IF f.err THEN akCache ELSE ActiveKeysEntry(f.keys),
            queried |-> TRUE, err |-> f.err, failed |-> f.failed] : f \in fetchActiveKeys }

\* What a GetActiveKeys call made on its own returned, whether it queried
\* the store, whether it returned an error and whether the store reported
\* one; none before a call and after any other step.
NoActiveKeysResult ==
    [called |-> FALSE, keys |-> {}, queried |-> FALSE, err |-> FALSE, failed |-> FALSE]
ActiveKeysResult(keys, queried, err, failed) ==
    [called |-> TRUE, keys |-> keys, queried |-> queried, err |-> err, failed |-> failed]
NoFetch == [keys |-> {}, err |-> FALSE, failed |-> FALSE]
NotStale == [fetched |-> FALSE, cached |-> FALSE]
LookupIdle ==
    /\ akRes = NoActiveKeysResult
    /\ akPc = "idle"
    /\ akFetched = NoFetch
    /\ akStale = NotStale

\* ActiveKeysCache.GetActiveKeys(apiKeyID) for the owner of the model, in
\* one step.
GetActiveKeysCall ==
    /\ \E got \in GetActiveKeys :
          /\ akCache' = got.cache
          /\ akRes' = ActiveKeysResult(got.keys, got.queried, got.err, got.failed)
    /\ UNCHANGED <<now, logChan, nextId, accepted, dropped, handled, written, wPc, wDrain,
                   wRow, done, dbOpen, closePc, metaKeys, hlls, hllDone, fPc, fFinal,
                   toFlush, akPc, akFetched, akStale>>

\* GetActiveKeys lines 40-46: the read of the cache under the read lock; a
\* hit returns, a miss goes on to the query.
GetActiveKeysBegin ==
    /\ akPc = "idle"
    /\ IF akCache.present /\ now < akCache.expiresAt
       THEN /\ akRes' = ActiveKeysResult(akCache.keys, FALSE, FALSE, FALSE)
            /\ UNCHANGED akPc
       ELSE /\ akPc' = "fetch"
            /\ akRes' = NoActiveKeysResult
    /\ UNCHANGED <<now, sinkVars, akFetched, akStale>>

\* GetActiveKeys lines 49-52: fetchActiveKeys, with no lock held; an error
\* is returned with a nil map.
GetActiveKeysFetch ==
    /\ akPc = "fetch"
    /\ \E f \in fetchActiveKeys :
         IF f.err
         THEN /\ akRes' = ActiveKeysResult({}, TRUE, TRUE, TRUE)
              /\ akPc' = "idle"
              /\ UNCHANGED akFetched
         ELSE /\ akFetched' = f
              /\ akPc' = "store"
              /\ akRes' = NoActiveKeysResult
    /\ UNCHANGED <<now, sinkVars, akStale>>

\* GetActiveKeys lines 54-62: the entry is written under the lock and the
\* set returned.
GetActiveKeysStore ==
    /\ akPc = "store"
    /\ akCache' = ActiveKeysEntry(akFetched.keys)
    /\ akRes' = ActiveKeysResult(akFetched.keys, TRUE, FALSE, akFetched.failed)
    /\ akPc' = "idle"
    /\ akFetched' = NoFetch
    /\ akStale' = [fetched |-> FALSE, cached |-> akStale.fetched]
    /\ UNCHANGED <<now, logChan, nextId, accepted, dropped, handled, written, wPc, wDrain,
                   wRow, done, dbOpen, closePc, metaKeys, hlls, hllDone, fPc, fFinal,
                   toFlush>>

\* ActiveKeysCache.InvalidateAPIKey(apiKeyID) lines 92-96.
InvalidateAPIKey ==
    /\ akCache' = NoActiveKeys
    /\ akStale' = [fetched |-> akPc = "store", cached |-> FALSE]
    /\ akRes' = NoActiveKeysResult
    /\ UNCHANGED <<now, logChan, nextId, accepted, dropped, handled, written, wPc, wDrain,
                   wRow, done, dbOpen, closePc, metaKeys, hlls, hllDone, fPc, fFinal,
                   toFlush, akPc, akFetched>>

\* The operator sets or clears is_active of a registered descriptor row.
SetActive(k, active) ==
    /\ metaKeys[k].registered /\ metaKeys[k].active # active
    /\ metaKeys' = [metaKeys EXCEPT ![k].active = active]
    /\ akRes' = NoActiveKeysResult
    /\ UNCHANGED <<now, logChan, nextId, accepted, dropped, handled, written, wPc, wDrain,
                   wRow, done, dbOpen, closePc, akCache, hlls, hllDone, fPc, fFinal,
                   toFlush, akPc, akFetched, akStale>>

SplitAll(raw, activeKeys) == raw

\* writeLog lines 91-100: the raw metadata whose key is active.
Split(raw, activeKeys) ==
    [k \in { x \in DOMAIN raw : x \in activeKeys } |-> raw[k]]

\* writeLoop lines 72-73 and 75-76 with writeLog lines 83-140: a row is
\* received, its metadata split, and the row inserted; the INSERT fails
\* when the connection is closed and may fail otherwise.
WriterReceive ==
    /\ wPc = "loop"
    /\ Len(logChan) > 0
    /\ LET log == Dequeue(logChan).row IN
         /\ logChan' = Dequeue(logChan).rest
         /\ handled' = Append(handled, log.id)
         /\ \E got \in (IF log.owner # NoOwner THEN GetActiveKeys
                        ELSE { [keys |-> {}, cache |-> akCache, queried |-> FALSE] }),
               inserted \in (IF dbOpen THEN BOOLEAN ELSE {FALSE}) :
              /\ akCache' = got.cache
              /\ IF inserted
                 THEN /\ written' = Append(written,
                            [id |-> log.id, owner |-> log.owner, raw |-> log.raw,
                             indexed |-> IF log.owner # NoOwner
                                         THEN Split(log.raw, got.keys) ELSE EmptyMap,
                             activeKeys |-> got.keys])
                      /\ IF log.owner # NoOwner
                         THEN wPc' = "add" /\ wRow' = log
                         ELSE UNCHANGED <<wPc, wRow>>
                 ELSE UNCHANGED <<written, wPc, wRow>>
    /\ UNCHANGED <<now, nextId, accepted, dropped, wDrain, done, dbOpen, closePc,
                   metaKeys, hlls, hllDone, fPc, fFinal, toFlush>>

\* hll.Estimate(): the number of distinct values inserted.
Estimate(values) == Cardinality(values)

\* An AddValue that counts the request twice.
AddValueTwice(e, value) ==
    [present |-> TRUE, values |-> e.values \cup {value}, dirty |-> TRUE, count |-> e.count + 2]

\* AddValue(owner, key, value) on one entry.
AddValue(e, value) ==
    [present |-> TRUE, values |-> e.values \cup {value}, dirty |-> TRUE, count |-> e.count + 1]

\* writeLog lines 143-146: AddValue for every raw key.
WriterAddValues ==
    /\ wPc = "add"
    /\ hlls' = [k \in MetadataKeys |->
                  IF k \in DOMAIN wRow.raw THEN AddValue(hlls[k], wRow.raw[k]) ELSE hlls[k]]
    /\ wPc' = "register"
    /\ UNCHANGED <<now, logChan, nextId, accepted, dropped, handled, written, wDrain, wRow,
                   done, dbOpen, closePc, metaKeys, akCache, hllDone, fPc, fFinal, toFlush>>

\* registerMetadataKeys: INSERT ... ON CONFLICT DO NOTHING for every raw
\* key; a failure is logged only.
WriterRegister ==
    /\ wPc = "register"
    /\ \E ok \in (IF dbOpen THEN BOOLEAN ELSE {FALSE}) :
         metaKeys' = [k \in MetadataKeys |->
                        IF ok /\ k \in DOMAIN wRow.raw
                        THEN [metaKeys[k] EXCEPT !.registered = TRUE]
                        ELSE metaKeys[k]]
    /\ wPc' = "loop"
    /\ wRow' = NoRow
    /\ UNCHANGED <<now, logChan, nextId, accepted, dropped, handled, written, wDrain,
                   done, dbOpen, closePc, akCache, hlls, hllDone, fPc, fFinal, toFlush>>

\* writeLoop line 74: the done case of the select is taken.
WriterSeesDone ==
    /\ wPc = "loop"
    /\ done
    /\ ~wDrain
    /\ wDrain' = TRUE
    /\ UNCHANGED <<now, logChan, nextId, accepted, dropped, handled, written, wPc, wRow,
                   done, dbOpen, closePc, metaKeys, akCache, hlls, hllDone, fPc, fFinal,
                   toFlush>>

\* writeLoop lines 75-78: the drain loop finds the channel empty and the
\* goroutine returns.
WriterExit ==
    /\ wPc = "loop"
    /\ wDrain
    /\ Len(logChan) = 0
    /\ wPc' = "exited"
    /\ UNCHANGED <<now, logChan, nextId, accepted, dropped, handled, written, wDrain, wRow,
                   done, dbOpen, closePc, metaKeys, akCache, hlls, hllDone, fPc, fFinal,
                   toFlush>>

\* Flush lines 582-596: under the lock, the dirty entries are copied into
\* toFlush and marked clean.
Snapshot ==
    [k \in MetadataKeys |->
        IF hlls[k].present /\ hlls[k].dirty
        THEN [present |-> TRUE, values |-> hlls[k].values, count |-> hlls[k].count]
        ELSE NoFlush]
MarkedClean ==
    [k \in MetadataKeys |->
        IF hlls[k].present /\ hlls[k].dirty
        THEN [hlls[k] EXCEPT !.dirty = FALSE, !.count = 0] ELSE hlls[k]]

\* flushLoop: a case of the select is taken (final = the done case) and
\* Flush begins; with nothing to flush it returns at once.
FlushBegin(final) ==
    /\ fPc = "loop"
    /\ final => hllDone
    /\ hlls' = MarkedClean
    /\ IF \E k \in MetadataKeys : Snapshot[k].present
       THEN /\ toFlush' = Snapshot
            /\ fPc' = "persist"
            /\ fFinal' = final
       ELSE /\ fPc' = IF final THEN "exited" ELSE "loop"
            /\ UNCHANGED <<toFlush, fFinal>>
    /\ UNCHANGED <<now, logChan, nextId, accepted, dropped, handled, written, wPc, wDrain,
                   wRow, done, dbOpen, closePc, metaKeys, akCache, hllDone>>

\* The values a metadata key can take.
MetadataValues == {"prod", "ml"}

\* Flush lines 612 and 617: MarshalBinary and Estimate read the sketch of
\* key k without the lock, while AddValue may insert into it: each read
\* sees the insertions made before the snapshot and any of the later ones.
SketchReads(k) ==
    { vs \in SUBSET hlls[k].values : toFlush[k].values \subseteq vs }

\* The keys of toFlush whose sketch AddValue changed since the snapshot.
ChangedInFlush ==
    { k \in MetadataKeys : toFlush[k].present /\ hlls[k].values # toFlush[k].values }

\* Flush lines 611-633: one UPDATE per entry of toFlush, with the bytes
\* and the estimate read from the shared sketch and the count copied; a
\* key in failed is one whose MarshalBinary or UPDATE fails, and an UPDATE
\* that fails or matches no row is logged only.
FlushWrite(failed) ==
    /\ fPc = "persist"
    /\ failed \subseteq { k \in MetadataKeys : toFlush[k].present }
    /\ dbOpen \/ failed = { k \in MetadataKeys : toFlush[k].present }
    /\ \E marshalled, estimated \in [ChangedInFlush -> SUBSET MetadataValues] :
         /\ \A k \in ChangedInFlush :
               /\ marshalled[k] \in SketchReads(k)
               /\ estimated[k] \in SketchReads(k)
         /\ metaKeys' = [k \in MetadataKeys |->
                IF toFlush[k].present /\ k \notin failed /\ metaKeys[k].registered
                THEN [metaKeys[k] EXCEPT
                        !.values = IF k \in ChangedInFlush THEN marshalled[k]
                                   ELSE hlls[k].values,
                        !.sound = TRUE,
                        !.card = Estimate(IF k \in ChangedInFlush THEN estimated[k]
                                          ELSE hlls[k].values),
                        !.count = @ + toFlush[k].count]
                ELSE metaKeys[k]]
    /\ toFlush' = [k \in MetadataKeys |-> NoFlush]
    /\ fPc' = IF fFinal THEN "exited" ELSE "loop"
    /\ fFinal' = FALSE
    /\ UNCHANGED <<now, logChan, nextId, accepted, dropped, handled, written, wPc, wDrain,
                   wRow, done, dbOpen, closePc, akCache, hlls, hllDone>>

FlushPersist ==
    \E failed \in SUBSET MetadataKeys : FlushWrite(failed)

\* The rows a metadata-key table may hold when the process starts: no
\* row, a row never flushed, a row with a sketch and its cardinality, and a
\* row whose hll_state does not unmarshal beside a cardinality.
PersistedRows ==
    { NoMetaKey } \cup
    { [NoMetaKey EXCEPT !.registered = TRUE, !.active = TRUE, !.values = vs,
                        !.card = Estimate(vs)] : vs \in SUBSET MetadataValues } \cup
    { [NoMetaKey EXCEPT !.registered = TRUE, !.active = TRUE, !.sound = FALSE,
                        !.card = c] : c \in 1..Cardinality(MetadataValues) }

\* LoadFromDB lines 490-532: the map it leaves.  The query fails, or each
\* row with a non-NULL hll_state is loaded unless its scan fails or its
\* bytes do not unmarshal.
LoadFromDB(rows, queryOk, scanFailed) ==
    [k \in MetadataKeys |->
        IF /\ queryOk
           /\ rows[k].registered
           /\ ~rows[k].sound \/ rows[k].values # {}
           /\ k \notin scanFailed
           /\ rows[k].sound
        THEN [present |-> TRUE, values |-> rows[k].values, dirty |-> FALSE, count |-> 0]
        ELSE NoHLL]

\* NewPostgresStorage lines 45-66 on a table with sketches: LoadFromDB,
\* whose error is logged only, then both goroutines are started.
HLLInit ==
    /\ metaKeys \in [MetadataKeys -> PersistedRows]
    /\ \E queryOk \in BOOLEAN, scanFailed \in SUBSET MetadataKeys :
         hlls = LoadFromDB(metaKeys, queryOk, scanFailed)
    /\ SinkStarted

\* HLLManager.AddValue lines 535-550, as writeLog calls it for a raw key
\* of a row; nextId counts the calls.
HLLAddValue(k, value) ==
    /\ nextId <= MaxRows
    /\ nextId' = nextId + 1
    /\ hlls' = [hlls EXCEPT ![k] = AddValue(@, value)]
    /\ UNCHANGED <<now, logChan, accepted, dropped, handled, written, wPc, wDrain, wRow,
                   done, dbOpen, closePc, metaKeys, akCache, hllDone, fPc, fFinal, toFlush>>

\* Close line 182: close(s.done).
CloseDone ==
    /\ closePc = "running"
    /\ done' = TRUE
    /\ closePc' = "stop"
    /\ UNCHANGED <<now, logChan, nextId, accepted, dropped, handled, written, wPc, wDrain,
                   wRow, dbOpen, metaKeys, akCache, hlls, hllDone, fPc, fFinal, toFlush>>

\* Close line 185, Stop line 644: close(m.done).
CloseStop ==
    /\ closePc = "stop"
    /\ hllDone' = TRUE
    /\ closePc' = "wait"
    /\ UNCHANGED <<now, logChan, nextId, accepted, dropped, handled, written, wPc, wDrain,
                   wRow, done, dbOpen, metaKeys, akCache, hlls, fPc, fFinal, toFlush>>

\* Stop line 645 and Close line 187: wg.Wait() returns once flushLoop has
\* returned, then db.Close() and Close returns.
CloseDB ==
    /\ closePc = "wait"
    /\ fPc = "exited"
    /\ dbOpen' = FALSE
    /\ closePc' = "closed"
    /\ UNCHANGED <<now, logChan, nextId, accepted, dropped, handled, written, wPc, wDrain,
                   wRow, done, metaKeys, akCache, hlls, hllDone, fPc, fFinal, toFlush>>

(***************************************************************************)
(* Pricing service (internal/pricing/service.go).                          *)
(***************************************************************************)
\* remotePriceEntry: id, input, output, input_cached (a pointer: null or a
\* number).  Prices are whole numbers of currency units per million tokens.
PriceEntry(id, input, output, hasCached, cached) ==
    [id |-> id, input |-> input, output |-> output, hasCached |-> hasCached,
     cached |-> cached]

\* ModelPricing
ModelPricing(input, output, cached) ==
    [InputPricePerMillion |-> input, OutputPricePerMillion |-> output,
     CachedPricePerMillion |-> cached]

\* A map with no entry.
NoPricing == [m \in {} |-> ModelPricing(0, 0, 0)]

\* The bodies an HTTP response can carry: text that is not JSON, a JSON
\* value that is not an object, a JSON object without a "prices" member
\* (an error document, say), and catalogs.
NotJSON == [json |-> FALSE, object |-> FALSE, hasPrices |-> FALSE, prices |-> << >>]
JSONArray == [json |-> TRUE, object |-> FALSE, hasPrices |-> FALSE, prices |-> << >>]
JSONError == [json |-> TRUE, object |-> TRUE, hasPrices |-> FALSE, prices |-> << >>]
Catalog(prices) == [json |-> TRUE, object |-> TRUE, hasPrices |-> TRUE, prices |-> prices]
CatalogA == Catalog(<<PriceEntry("gpt", 2, 4, FALSE, 0)>>)
CatalogB == Catalog(<<PriceEntry("gpt", 3, 6, TRUE, 1), PriceEntry("claude", 5, 10, FALSE, 0)>>)
Bodies == { NotJSON, JSONArray, JSONError, CatalogA, CatalogB }

\* What httpClient.Do gives: a transport error, or a response with a
\* status code and a body.
HTTPStatuses == {200, 500}
NoExchange == [made |-> FALSE, err |-> FALSE, status |-> 0, body |-> NotJSON]
TransportError == [made |-> TRUE, err |-> TRUE, status |-> 0, body |-> NotJSON]
Response(status, body) == [made |-> TRUE, err |-> FALSE, status |-> status, body |-> body]
Exchanges ==
    {TransportError} \cup
    { Response(st, b) : st \in HTTPStatuses, b \in Bodies }

\* json.NewDecoder(body).Decode(&remoteResp): an error for text that is
\* not JSON and for a JSON value that is not an object; otherwise the
\* struct, whose Prices is nil when the object has no "prices" member.
DecodeOk(body) == body.json /\ body.object
DecodePrices(body) == IF body.hasPrices THEN body.prices ELSE << >>

\* fetchRemote lines 129-140: the map built from the entries, a later
\* entry replacing an earlier one with the same id.
PricingOf(prices) ==
    [m \in { prices[i].id : i \in 1..Len(prices) } |->
        LET last == CHOOSE i \in 1..Len(prices) :
                       /\ prices[i].id = m
                       /\ \A j \in 1..Len(prices) : prices[j].id = m => j <= i
            e == prices[last]
        IN ModelPricing(e.input, e.output, IF e.hasCached THEN e.cached ELSE 0)]

\* fetchRemote: does the exchange x end in an error, and the map it leaves.
FetchRemoteErr(x) == x.err \/ ~DecodeOk(x.body)
FetchRemotePricing(old, x) ==
    IF FetchRemoteErr(x) THEN old ELSE PricingOf(DecodePrices(x.body))

\* The map of the fallback file.
FallbackPricing == [m \in {"gpt"} |-> ModelPricing(1, 2, 1)]

\* models.UsageMetrics and models.Cost; a cost is given in millionths of a
\* currency unit, the division by 1_000_000 left out.
UsageMetrics(model, input, output, cached) ==
    [Model |-> model, InputTokens |-> input, OutputTokens |-> output,
     CachedTokens |-> cached]
Cost(input, output, total, found) ==
    [InputCost |-> input, OutputCost |-> output, TotalCost |-> total,
     ModelAliasFound |-> found]
NoCost ==
    [called |-> FALSE, metrics |-> UsageMetrics("none", 0, 0, 0), seen |-> NoPricing,
     cost |-> Cost(0, 0, 0, FALSE)]

\* The token counts of a parsed response: provider/openai.go lines 40-62
\* copy prompt_tokens, completion_tokens and
\* prompt_tokens_details.cached_tokens from the upstream document as they
\* are, so the cached count may exceed the input count.
TokenCounts ==
    { [input |-> 3, output |-> 2, cached |-> 0],
      [input |-> 3, output |-> 2, cached |-> 1],
      [input |-> 1, output |-> 2, cached |-> 3] }
Metrics ==
    { UsageMetrics(m, t.input, t.output, t.cached) :
        m \in {"gpt", "gpt-latest", "claude"}, t \in TokenCounts }

\* Calculate line 197: pricing, ok := s.pricing[metrics.Model].
NoLookup == [ok |-> FALSE, pricing |-> ModelPricing(0, 0, 0)]
DirectLookup(pr, model) ==
    IF model \in DOMAIN pr THEN [ok |-> TRUE, pricing |-> pr[model]] ELSE NoLookup

\* Calculate lines 198-203: the alias lookup, made only when the direct
\* lookup found nothing.
AliasLookup(pr, al, model, found) ==
    IF found.ok THEN found
    ELSE IF model \in DOMAIN al THEN DirectLookup(pr, al[model])
    ELSE found

\* Calculate lines 206-220: the cost from what the lookups found.
CostOf(metrics, found) ==
    IF ~found.ok
    THEN Cost(0, 0, 0, FALSE)
    ELSE LET inputCost == (metrics.InputTokens - metrics.CachedTokens)
                              * found.pricing.InputPricePerMillion
             cachedCost == metrics.CachedTokens * found.pricing.CachedPricePerMillion
             outputCost == metrics.OutputTokens * found.pricing.OutputPricePerMillion
         IN Cost(inputCost + cachedCost, outputCost,
                 inputCost + cachedCost + outputCost, TRUE)

\* Calculate lines 195-221 on one map and one alias table.
CalculateCost(pr, al, metrics) ==
    CostOf(metrics, AliasLookup(pr, al, metrics.Model, DirectLookup(pr, metrics.Model)))

\* No Calculate call is between RLock and RUnlock.
NoCalc ==
    [active |-> FALSE, metrics |-> UsageMetrics("none", 0, 0, 0), found |-> NoLookup,
     seen |-> NoPricing]

\* sync.RWMutex: Lock is granted when no reader holds the lock.
CanLockAlways(calc) == TRUE
CanLock(calc) == ~calc.active

\* The service when it is not exercised.
PricingIdle ==
    /\ pricing = NoPricing
    /\ aliases = [m \in {} |-> "none"]
    /\ prDone = FALSE
    /\ prPc = "loop"
    /\ prFetch = NoExchange
    /\ prErr = FALSE
    /\ prCost = NoCost
    /\ prCalc = NoCalc
    /\ prNew = NoPricing

\* The alias tables of loadAliases lines 74-96: none (the file is missing),
\* an alias of a priced model, and a table in which a name that the catalog
\* prices is itself an alias.
AliasTables ==
    { [m \in {} |-> "none"],
      [m \in {"gpt-latest"} |-> "gpt"],
      [m \in {"gpt-latest", "gpt"} |-> IF m = "gpt" THEN "claude" ELSE "gpt"] }

\* NewService lines 55-72: the aliases file is loaded or not; loadPricing
\* fetches the remote catalog and, when that fails, loads the fallback
\* file, which may be unreadable; refreshLoop is started.
PricingInit ==
    /\ aliases \in AliasTables
    /\ \E x \in Exchanges, fallbackOk \in BOOLEAN :
         pricing = IF ~FetchRemoteErr(x) THEN FetchRemotePricing(NoPricing, x)
                   ELSE IF fallbackOk THEN FallbackPricing ELSE NoPricing
    /\ prDone = FALSE
    /\ prPc = "loop"
    /\ prFetch = NoExchange
    /\ prErr = FALSE
    /\ prCost = NoCost
    /\ prCalc = NoCalc
    /\ prNew = NoPricing

\* refreshLoop lines 185-188: the ticker case, fetchRemote with exchange x.
\* An exchange that ends in an error leaves the map; otherwise the map
\* built is stored under s.mu.Lock (lines 142-144), at once when no reader
\* holds the lock, and after the reader's RUnlock otherwise.
Refresh(x) ==
    /\ prPc = "loop"
    /\ prFetch' = x
    /\ prErr' = FetchRemoteErr(x)
    /\ prCost' = NoCost
    /\ IF FetchRemoteErr(x) \/ CanLock(prCalc)
       THEN /\ pricing' = FetchRemotePricing(pricing, x)
            /\ UNCHANGED <<prPc, prNew>>
       ELSE /\ prPc' = "lock"
            /\ prNew' = FetchRemotePricing(pricing, x)
            /\ UNCHANGED pricing
    /\ UNCHANGED <<now, aliases, prDone, prCalc>>

\* fetchRemote lines 142-144, when Lock had to wait for a reader.
RefreshStore ==
    /\ prPc = "lock"
    /\ CanLock(prCalc)
    /\ pricing' = prNew
    /\ prNew' = NoPricing
    /\ prPc' = "loop"
    /\ prFetch' = NoExchange
    /\ prErr' = FALSE
    /\ prCost' = NoCost
    /\ UNCHANGED <<now, aliases, prDone, prCalc>>

\* refreshLoop lines 189-190: the done case.
RefreshLoopExit ==
    /\ prPc = "loop"
    /\ prDone
    /\ prPc' = "exited"
    /\ prFetch' = NoExchange
    /\ prErr' = FALSE
    /\ prCost' = NoCost
    /\ UNCHANGED <<now, pricing, aliases, prDone, prCalc, prNew>>

\* Service.Close, called once by main.
PricingClose ==
    /\ ~prDone
    /\ prDone' = TRUE
    /\ prFetch' = NoExchange
    /\ prErr' = FALSE
    /\ prCost' = NoCost
    /\ UNCHANGED <<now, pricing, aliases, prPc, prCalc, prNew>>

\* Calculate lines 196-197: RLock, which waits while a writer waits for
\* the lock, and the direct lookup.
Calculate(metrics) ==
    /\ ~prCalc.active
    /\ prPc # "lock"
    /\ prCalc' = [active |-> TRUE, metrics |-> metrics,
                  found |-> DirectLookup(pricing, metrics.Model), seen |-> pricing]
    /\ prCost' = NoCost
    /\ prFetch' = NoExchange
    /\ prErr' = FALSE
    /\ UNCHANGED <<now, pricing, aliases, prDone, prPc, prNew>>

\* Calculate lines 198-221: the alias lookup, RUnlock, and the cost.
CalculateReturn ==
    /\ prCalc.active
    /\ prCost' = [called |-> TRUE, metrics |-> prCalc.metrics, seen |-> prCalc.seen,
                  cost |-> CostOf(prCalc.metrics,
                                  AliasLookup(pricing, aliases, prCalc.metrics.Model,
                                              prCalc.found))]
    /\ prCalc' = NoCalc
    /\ prFetch' = NoExchange
    /\ prErr' = FALSE
    /\ UNCHANGED <<now, pricing, aliases, prDone, prPc, prNew>>

(***************************************************************************)
(* The serve command (runServe, src/unnamed/part_002) and the S3 uploader  *)
(* (S3BodyStorage, internal/storage/s3.go).                                *)
(***************************************************************************)
\* The send case of the select in Upload is ready.
CanUpload(q) == Len(q) < UploadChanCap

\* S3BodyStorage.Upload(upload): select { case uploadChan <- upload:
\* default: drop }: the channel it leaves.
Upload(q, key) == IF CanUpload(q) THEN Append(q, key) ELSE q

\* runServe has built the store, the pricing service, the uploader and the
\* server, and waits for a signal or a server error.
ServeConstructed ==
    /\ svPc = "serving"
    /\ svInflight = 0
    /\ uploadChan = << >>
    /\ uDone = FALSE
    /\ uPc = "loop"

\* The serve command when it is not exercised.
ServeIdle == svS3 = FALSE /\ ServeConstructed

ServeInit == svS3 \in BOOLEAN /\ ServeConstructed

\* The process runs: main has not returned and os.Exit was not called.
ProcessAlive == svPc \notin {"returned", "exitServerError", "exitShutdownError"}

\* The HTTP server accepts a request.
ServeAccept ==
    /\ svPc = "serving"
    /\ svInflight < MaxInflight
    /\ svInflight' = svInflight + 1
    /\ UNCHANGED <<now, sinkVars, pricingVars, svPc, svS3, uploadChan, uDone, uPc>>

\* A request in flight ends; with an uploader its bodies are handed to
\* Upload.
ServeFinish ==
    /\ svPc \in {"serving", "shutdown"}
    /\ svInflight > 0
    /\ svInflight' = svInflight - 1
    /\ uploadChan' = IF svS3 THEN Upload(uploadChan, <<"A", "/", "request">>)
                     ELSE uploadChan
    /\ UNCHANGED <<now, sinkVars, pricingVars, svPc, svS3, uDone, uPc>>

\* runServe lines 587-590: srv.Start failed: os.Exit(1).
ServeError ==
    /\ svPc = "serving"
    /\ svPc' = "exitServerError"
    /\ UNCHANGED <<now, sinkVars, pricingVars, svS3, svInflight, uploadChan, uDone, uPc>>

\* runServe lines 591-592: a termination signal is received.
ServeSignal ==
    /\ svPc = "serving"
    /\ svPc' = "shutdown"
    /\ UNCHANGED <<now, sinkVars, pricingVars, svS3, svInflight, uploadChan, uDone, uPc>>

\* runServe lines 595-600: ShutdownWithTimeout(30 s) returns nil once no
\* request is in flight, and main returns into its deferred calls; it
\* returns an error when the 30 s pass with a request in flight, and
\* runServe calls os.Exit(1).
ServeShutdown ==
    /\ svPc = "shutdown"
    /\ svPc' = IF svInflight > 0 THEN "exitShutdownError"
               ELSE IF svS3 THEN "closeS3" ELSE "closePricing"
    /\ UNCHANGED <<now, sinkVars, pricingVars, svS3, svInflight, uploadChan, uDone, uPc>>

\* The deferred s3Storage.Close() (runServe line 552, Close lines 200-203):
\* close(s.done).
ServeCloseS3 ==
    /\ svPc = "closeS3"
    /\ uDone' = TRUE
    /\ svPc' = "closePricing"
    /\ UNCHANGED <<now, sinkVars, pricingVars, svS3, svInflight, uploadChan, uPc>>

\* The deferred pricingSvc.Close() (runServe line 538).
ServeClosePricing ==
    /\ svPc = "closePricing"
    /\ PricingClose
    /\ svPc' = "closeStore"
    /\ UNCHANGED <<sinkVars, svS3, svInflight, uploadChan, uDone, uPc>>

\* The deferred store.Close() (runServe line 530) begins: close(s.done).
ServeCloseStore ==
    /\ svPc = "closeStore"
    /\ CloseDone
    /\ svPc' = "storeClosing"
    /\ UNCHANGED <<pricingVars, svS3, svInflight, uploadChan, uDone, uPc>>

\* store.Close() has returned and main returns: the process ends.
ServeReturn ==
    /\ svPc = "storeClosing"
    /\ closePc = "closed"
    /\ svPc' = "returned"
    /\ UNCHANGED <<now, sinkVars, pricingVars, svS3, svInflight, uploadChan, uDone, uPc>>

\* uploadLoop lines 108-110 and 112-114: an upload is received, by the
\* select or by the drain loop, and doUpload runs.
UploaderReceive ==
    /\ ProcessAlive
    /\ uPc = "loop"
    /\ Len(uploadChan) > 0
    /\ uploadChan' = Tail(uploadChan)
    /\ UNCHANGED <<svPc, svS3, svInflight, uDone, uPc>>

\* uploadLoop lines 111-115: done is closed, the drain loop finds the
\* channel empty and the goroutine returns.
UploaderExit ==
    /\ ProcessAlive
    /\ uPc = "loop"
    /\ uDone
    /\ Len(uploadChan) = 0
    /\ uPc' = "exited"
    /\ UNCHANGED <<svPc, svS3, svInflight, uploadChan, uDone>>

(***************************************************************************)
(* The request handler (proxy.Handler) and the upstream client.  A header  *)
(* name is a sequence of symbols, so that lower-casing, prefix tests and   *)
(* prefix trimming are computed; a header map gives each name its values.  *)
(***************************************************************************)
\* strings.ToLower, symbol by symbol.
LowerSym(x) ==
    CASE x = "X-Majordomo" -> "x-majordomo"
      [] x = "Key" -> "key"
      [] x = "Team" -> "team"
      [] x = "Trace" -> "trace"
      [] x = "Provider" -> "provider"
      [] x = "Provider-Alias" -> "provider-alias"
      [] x = "Authorization" -> "authorization"
      [] x = "Accept" -> "accept"
      [] x = "Accept-Encoding" -> "accept-encoding"
      [] x = "Connection" -> "connection"
      [] x = "Content-Type" -> "content-type"
      [] x = "Content-Encoding" -> "content-encoding"
      [] x = "Vary" -> "vary"
      [] x = "X-Api-Key" -> "x-api-key"
      [] x = "Anthropic-Version" -> "anthropic-version"
      [] x = "X-Content-Type-Options" -> "x-content-type-options"
      [] x = "OpenAI" -> "openai"
      [] x = "Anthropic" -> "anthropic"
      [] x = "GEMINI" -> "gemini"
      [] x = "Anthropic-OpenAI" -> "anthropic-openai"
      [] OTHER -> x
ToLower(s) == [i \in 1..Len(s) |-> LowerSym(s[i])]

\* textproto.CanonicalMIMEHeaderKey, symbol by symbol: the first letter and
\* every letter after a hyphen in upper case, the others in lower case.
CanonSym(x) ==
    CASE LowerSym(x) = "x-majordomo" -> "X-Majordomo"
      [] LowerSym(x) = "key" -> "Key"
      [] LowerSym(x) = "team" -> "Team"
      [] LowerSym(x) = "trace" -> "Trace"
      [] LowerSym(x) = "provider" -> "Provider"
      [] LowerSym(x) = "provider-alias" -> "Provider-Alias"
      [] LowerSym(x) = "authorization" -> "Authorization"
      [] LowerSym(x) = "accept" -> "Accept"
      [] LowerSym(x) = "accept-encoding" -> "Accept-Encoding"
      [] LowerSym(x) = "connection" -> "Connection"
      [] LowerSym(x) = "content-type" -> "Content-Type"
      [] LowerSym(x) = "content-encoding" -> "Content-Encoding"
      [] LowerSym(x) = "vary" -> "Vary"
      [] LowerSym(x) = "x-api-key" -> "X-Api-Key"
      [] LowerSym(x) = "anthropic-version" -> "Anthropic-Version"
      [] LowerSym(x) = "x-content-type-options" -> "X-Content-Type-Options"
      [] OTHER -> x
CanonicalMIMEHeaderKey(s) == [i \in 1..Len(s) |-> CanonSym(s[i])]

\* strings.TrimPrefix
TrimPrefix(s, p) == IF HasPrefix(s, p) THEN SubSeq(s, Len(p) + 1, Len(s)) ELSE s

\* http.Header: Get (the first value, "" when there is none), Set and Del.
NoHeaders == [n \in {} |-> << >>]
Restrict(f, S) == [x \in S |-> f[x]]
HeaderGet(h, key) ==
    IF CanonicalMIMEHeaderKey(key) \in DOMAIN h /\ Len(h[CanonicalMIMEHeaderKey(key)]) > 0
    THEN h[CanonicalMIMEHeaderKey(key)][1]
    ELSE << >>
HeaderSet(h, key, value) ==
    [n \in DOMAIN h \cup {CanonicalMIMEHeaderKey(key)} |->
        IF n = CanonicalMIMEHeaderKey(key) THEN <<value>> ELSE h[n]]
HeaderDel(h, key) == Restrict(h, DOMAIN h \ {CanonicalMIMEHeaderKey(key)})

\* hopByHopHeaders of the upstream client.
hopByHopHeaders ==
    { <<"connection">>, <<"keep-alive">>, <<"proxy-authenticate">>,
      <<"proxy-authorization">>, <<"te">>, <<"trailers">>, <<"transfer-encoding">>,
      <<"upgrade">>, <<"host">>, <<"content-length">>, <<"accept-encoding">> }

\* The headers dst.Add receives, dst being empty before: the names src
\* keeps, each with all its values.
AddAll(src, kept) ==
    [k \in { CanonicalMIMEHeaderKey(n) : n \in kept } |->
        src[CHOOSE n \in kept : CanonicalMIMEHeaderKey(n) = k]]

\* copyHeaders(src, dst) on the empty header of a new upstream request.
copyHeaders(src) ==
    AddAll(src, { n \in DOMAIN src :
                    /\ ~HasPrefix(ToLower(n), <<"x-majordomo">>)
                    /\ ToLower(n) \notin hopByHopHeaders })

\* copyResponseHeaders(src, dst) on the empty header of the response writer.
copyResponseHeaders(src) ==
    AddAll(src, { n \in DOMAIN src :
                    /\ ToLower(n) \notin hopByHopHeaders
                    /\ ToLower(n) # <<"content-encoding">> })

\* extractHeaders: the first value of every header whose lower-cased name
\* has the prefix, under the lower-cased name.
extractHeaders(h) ==
    LET kept == { n \in DOMAIN h : HasPrefix(ToLower(n), <<"x-majordomo">>) }
    IN [k \in { ToLower(n) : n \in kept } |->
           h[CHOOSE n \in kept : ToLower(n) = k][1]]

\* extractCustomMetadata: the reserved names are left out and the prefix
\* "x-majordomo-" is trimmed from the others.
ReservedHeaders ==
    { <<"x-majordomo", "-", "key">>, <<"x-majordomo", "-", "provider">>,
      <<"x-majordomo", "-", "provider-alias">> }
extractCustomMetadata(headers) ==
    LET kept == DOMAIN headers \ ReservedHeaders
    IN [c \in { TrimPrefix(k, <<"x-majordomo", "-">>) : k \in kept } |->
           headers[CHOOSE k \in kept : TrimPrefix(k, <<"x-majordomo", "-">>) = c]]

\* resolveExplicitProvider: the provider the lower-cased name names, or
\* ProviderUnknown.  (The base URL of ProviderInfo is left out.)
resolveExplicitProvider(name) ==
    LET n == ToLower(name)
    IN CASE n = <<"openai">> -> "openai"
         [] n = <<"anthropic">> -> "anthropic"
         [] n = <<"gemini">> -> "gemini"
         [] n = <<"gemini-openai">> -> "gemini-openai"
         [] n = <<"anthropic-openai">> -> "anthropic-openai"
         [] n = <<"azure">> -> "azure"
         [] n = <<"bedrock">> -> "bedrock"
         [] OTHER -> "unknown"

\* The path rules tried with the substring rule first.
detectFromPathSubstringFirst(path) ==
    IF Contains(path, <<"generateContent">>) \/ Contains(path, <<"streamGenerateContent">>)
    THEN "gemini"
    ELSE IF HasPrefix(path, <<"/v1/messages">>) THEN "anthropic"
    ELSE "openai"

\* detectFromPath: the switch, its cases in order of the source.
detectFromPath(path) ==
    IF \/ HasPrefix(path, <<"/v1/chat/completions">>)
       \/ HasPrefix(path, <<"/v1/completions">>)
       \/ HasPrefix(path, <<"/v1/embeddings">>)
       \/ HasPrefix(path, <<"/v1/responses">>)
    THEN "openai"
    ELSE IF HasPrefix(path, <<"/v1/messages">>)
    THEN "anthropic"
    ELSE IF \/ Contains(path, <<"generateContent">>)
            \/ Contains(path, <<"streamGenerateContent">>)
    THEN "gemini"
    ELSE "openai"

\* provider.Detect(path, headers): the explicit header decides when the map
\* has it.
Detect(path, headers) ==
    IF <<"x-majordomo", "-", "provider">> \in DOMAIN headers
    THEN resolveExplicitProvider(headers[<<"x-majordomo", "-", "provider">>])
    ELSE detectFromPath(path)

\* The path of the requests the handler model serves.
ChatCompletionsPath == <<"/v1/chat/completions">>
IsTranslationRequired(p) == p = "anthropic-openai"

\* ServeHTTP lines 775-781: Authorization becomes X-Api-Key on the request
\* that is translated.
TranslateHeaders(h) ==
    IF HeaderGet(h, <<"Authorization">>) # << >>
    THEN HeaderSet(HeaderSet(HeaderDel(h, <<"Authorization">>), <<"X-Api-Key">>,
                             TrimPrefix(HeaderGet(h, <<"Authorization">>), <<"Bearer ">>)),
                   <<"Anthropic-Version">>, <<"2023-06-01">>)
    ELSE h

\* The headers an inbound request may carry besides X-Majordomo-Key, in the
\* canonical form the server gives their names: Accept has two values.
HeaderCatalog ==
    (<<"Accept">> :> << <<"a">>, <<"b">> >>)
    @@ (<<"Authorization">> :> << <<"Bearer ", "sk-up">> >>)
    @@ (<<"Accept-Encoding">> :> << <<"gzip">> >>)
    @@ (<<"Connection">> :> << <<"keep-alive">> >>)
    @@ (<<"X-Majordomo", "-", "Team">> :> << <<"ml">> >>)
    @@ (<<"X-Majordomo", "id">> :> << <<"7">> >>)
    @@ (<<"X-Majordomo", "-", "Provider">> :> << <<"anthropic-openai">> >>)
KeyHeaders ==
    { NoHeaders,
      (<<"X-Majordomo", "-", "Key">> :> << <<"mdm_sk_", "1">> >>),
      (<<"X-Majordomo", "-", "Key">> :> << <<"mdm_sk_", "9">> >>) }
InboundHeaders ==
    { Restrict(HeaderCatalog, S \cup {<<"Accept">>}) @@ k :
        S \in SUBSET (DOMAIN HeaderCatalog), k \in KeyHeaders }

\* What h.resolver.ResolveAPIKey returns to the handler: an error for the
\* empty key and for a key without a usable row, and for a key of the
\* store its id or an error (the row is revoked, the query fails).
NoAPIKeyInfo == [called |-> FALSE, err |-> FALSE, id |-> "none"]
ResolveOutcomes(apiKey) ==
    { [called |-> TRUE, err |-> TRUE, id |-> "none"] } \cup
    ( IF apiKey \in OperatorKeys
      THEN { [called |-> TRUE, err |-> FALSE, id |-> KeyIdOf(HashAPIKey(apiKey))] }
      ELSE {} )
ResolveNeverFailed(info) == FALSE
ResolveFailed(info) == info.err

\* What UpstreamClient.Forward gets from the provider: an error, or a
\* status, headers and a body that is long (1024 bytes or more) or short.
ResponseCatalog ==
    (<<"Content-Type">> :> << <<"application/json">> >>)
    @@ (<<"Content-Encoding">> :> << <<"br">> >>)
    @@ (<<"Connection">> :> << <<"close">> >>)
    @@ (<<"X-Majordomo", "-", "Trace">> :> << <<"t1">> >>)
\* A body that is not JSON.
Malformed == [valid |-> FALSE]
\* AnthropicResponse as json.Unmarshal fills it from a body.
AnthropicDocument(stop) ==
    [valid |-> TRUE, id |-> "msg", model |-> "claude",
     content |-> << [type |-> "text", text |-> "A"], [type |-> "tool_use", text |-> "T"],
                    [type |-> "text", text |-> "B"] >>,
     stop_reason |-> stop, usage |-> [input_tokens |-> 1, output_tokens |-> 2]]
\* A body: its bytes and the document they spell.
BodyOf(bytes, doc) == [bytes |-> bytes, doc |-> doc]
NoBody == BodyOf(<< >>, Malformed)
NoUpstreamResponse ==
    [made |-> FALSE, err |-> FALSE, StatusCode |-> 0, Headers |-> NoHeaders, long |-> FALSE,
     Body |-> NoBody, upstream |-> NoBody]
\* Upstream bodies: empty, as long as an error message may be, longer, and
\* long enough to be compressed; the two longer ones are JSON documents.
ResponseBodies ==
    { [Body |-> NoBody, long |-> FALSE],
      [Body |-> BodyOf([i \in 1..ErrorMessageLimit |-> <<"byte", i>>], Malformed),
       long |-> FALSE],
      [Body |-> BodyOf([i \in 1..(ErrorMessageLimit + 1) |-> <<"byte", i>>],
                       AnthropicDocument("max_tokens")),
       long |-> FALSE],
      [Body |-> BodyOf([i \in 1..(ErrorMessageLimit + 1) |-> <<"byte", i>>],
                       AnthropicDocument("end_turn")),
       long |-> TRUE] }
UpstreamResponses ==
    { [made |-> TRUE, err |-> TRUE, StatusCode |-> 0, Headers |-> NoHeaders, long |-> FALSE,
       Body |-> NoBody, upstream |-> NoBody] }
    \cup
    { [made |-> TRUE, err |-> FALSE, StatusCode |-> st,
       Headers |-> Restrict(ResponseCatalog, S), long |-> b.long, Body |-> b.Body,
       upstream |-> b.Body] :
        st \in {200, 400}, S \in SUBSET (DOMAIN ResponseCatalog), b \in ResponseBodies }

\* json.Marshal of a document: the bytes of its text.
Marshal(doc) == BodyOf(<< <<"json", doc>> >>, doc)

\* TranslateAnthropicToOpenAI lines 375-421: the OpenAIResponse built from
\* an Anthropic response, or the error of json.Unmarshal.
TextOf(content) ==
    LET texts == SelectSeq(content, LAMBDA block : block.type = "text")
    IN  [i \in 1..Len(texts) |-> texts[i].text]
FinishReason(stop) ==
    IF stop = "max_tokens" THEN "length"
    ELSE IF stop = "tool_use" THEN "tool_calls"
    ELSE "stop"
TranslateAnthropicToOpenAI(body) ==
    IF ~body.doc.valid
    THEN [err |-> TRUE, body |-> NoBody]
    ELSE [err |-> FALSE,
          body |-> Marshal([valid |-> TRUE, id |-> body.doc.id, object |-> "chat.completion",
                            created |-> 0, model |-> body.doc.model,
                            choices |-> << [index |-> 0,
                                            message |-> [role |-> "assistant",
                                                         content |-> TextOf(body.doc.content)],
                                            finish_reason |-> FinishReason(body.doc.stop_reason)] >>,
                            usage |-> [prompt_tokens |-> body.doc.usage.input_tokens,
                                       completion_tokens |-> body.doc.usage.output_tokens,
                                       total_tokens |-> body.doc.usage.input_tokens
                                                        + body.doc.usage.output_tokens]])]

\* GzipCompress(data): the compressed bytes, which are not the data.
GzipCompress(body) == BodyOf(<< <<"gzip", body.bytes>> >>, Malformed)

\* AcceptsGzip, isCompressibleContentType and ShouldCompress.
AcceptsGzip(acceptEncoding) == HasPrefix(acceptEncoding, <<"gzip">>)
isCompressibleContentType(contentType) ==
    \E ct \in { <<"text/">>, <<"application/json">>, <<"application/xml">> } :
        Contains(ToLower(contentType), ct)
ShouldCompress(acceptEncoding, contentType, long) ==
    AcceptsGzip(acceptEncoding) /\ long /\ isCompressibleContentType(contentType)

\* What the caller is sent.  http.Error writes the status with a plain
\* text body; ServeHTTP lines 802-822 write the upstream status with the
\* filtered headers, and the gzip headers when the body is compressed.
NoResponse == [written |-> FALSE, status |-> 0, header |-> NoHeaders, body |-> NoBody]
HTTPError(status) ==
    [written |-> TRUE, status |-> status,
     header |-> (<<"Content-Type">> :> << <<"text/plain; charset=utf-8">> >>)
                @@ (<<"X-Content-Type-Options">> :> << <<"nosniff">> >>),
     body |-> BodyOf(<< <<"error", status>> >>, Malformed)]
WriteNothing(reqHeader, resp) == NoResponse
WriteResponse(reqHeader, resp) ==
    [written |-> TRUE, status |-> resp.StatusCode,
     header |->
        IF ShouldCompress(HeaderGet(reqHeader, <<"Accept-Encoding">>),
                          HeaderGet(resp.Headers, <<"Content-Type">>), resp.long)
        THEN HeaderSet(HeaderSet(copyResponseHeaders(resp.Headers),
                                 <<"Content-Encoding">>, <<"gzip">>),
                       <<"Vary">>, <<"Accept-Encoding">>)
        ELSE copyResponseHeaders(resp.Headers),
     body |->
        IF ShouldCompress(HeaderGet(reqHeader, <<"Accept-Encoding">>),
                          HeaderGet(resp.Headers, <<"Content-Type">>), resp.long)
        THEN GzipCompress(resp.Body)
        ELSE resp.Body]

\* The messages of an OpenAI chat request: at most MaxMessages of them,
\* with any roles, several system-role messages included.
Roles == {"system", "user", "assistant"}
OpenAIMessage(role, content) == [role |-> role, content |-> content]
OpenAIMessages == { OpenAIMessage(r, c) : r \in Roles, c \in {"A", "B"} }
MessageArrays == UNION { [1..n -> OpenAIMessages] : n \in 0..MaxMessages }

\* max_tokens is a pointer: absent (or null), or a number, zero included.
NoMaxTokens == [present |-> FALSE, value |-> 0]
MaxTokensValues == { NoMaxTokens, [present |-> TRUE, value |-> 0], [present |-> TRUE, value |-> 100] }

\* OpenAIRequest as json.Unmarshal fills it.
OpenAIRequest(messages, maxTokens) ==
    [valid |-> TRUE, model |-> "claude", messages |-> messages, max_tokens |-> maxTokens]
OpenAIRequests ==
    { OpenAIRequest(m, t) : m \in MessageArrays, t \in MaxTokensValues } \cup {Malformed}

\* Lines 346-356: the loop over req.Messages; acc holds anthropicReq.System
\* and the messages appended so far.
RECURSIVE translateMessages(_, _)
translateMessages(msgs, acc) ==
    IF msgs = << >> THEN acc
    ELSE translateMessages(Tail(msgs),
             IF Head(msgs).role = "system"
             THEN [acc EXCEPT !.system = Head(msgs).content]
             ELSE [acc EXCEPT !.messages = Append(@, Head(msgs))])

\* TranslateOpenAIToAnthropic(body): the AnthropicRequest marshalled and the
\* new path, or the error of json.Unmarshal.  system = "" is the field left
\* out (omitempty).
TranslateOpenAIToAnthropic(body) ==
    IF ~body.valid
    THEN [called |-> TRUE, err |-> TRUE, body |-> Malformed, path |-> << >>]
    ELSE LET acc == translateMessages(body.messages, [system |-> "", messages |-> << >>])
         IN [called |-> TRUE, err |-> FALSE,
             body |-> [valid |-> TRUE, model |-> body.model, system |-> acc.system,
                       messages |-> acc.messages,
                       max_tokens |-> IF body.max_tokens.present
                                      THEN body.max_tokens.value ELSE 4096],
             path |-> <<"/v1/messages">>]

\* The request in the handler: the headers it came with, r.Header as the
\* handler has rewritten it, the headers extractHeaders kept, the digest
\* extractProviderKeyInfo took, the provider detected, the body read and
\* the path it came with, and upstreamBody and r.URL.Path as the handler
\* has set them.
NoRequest ==
    [inbound |-> NoHeaders, Header |-> NoHeaders, headers |-> NoHeaders,
     providerKeyHash |-> << >>, provider |-> "none", body |-> Malformed, path |-> << >>,
     upstreamBody |-> Malformed, Path |-> << >>]
NoForward == [made |-> FALSE, Header |-> NoHeaders, Body |-> Malformed, Path |-> << >>]

\* The bodies of the requests the handler model serves: a chat request,
\* and a text that is not JSON.
RequestBodies ==
    { Malformed,
      OpenAIRequest(<< OpenAIMessage("system", "A"), OpenAIMessage("user", "B") >>,
                    NoMaxTokens) }

\* models.RequestLog and storage.BodyUpload, the fields that hold text of
\* the request; made = FALSE stands for "none", and accepted tells whether
\* Upload put the upload into its channel.
NoErrorMessage == [set |-> FALSE, text |-> << >>]
NoRequestLog ==
    [made |-> FALSE, MajordomoAPIKeyID |-> "none", ProviderAPIKeyHash |-> << >>,
     RawMetadata |-> NoHeaders, RequestBody |-> << >>, ResponseBody |-> << >>,
     BodyS3Key |-> << >>, StatusCode |-> 0, ErrorMessage |-> NoErrorMessage]

\* logRequest lines 856-863: the error message of a row: none below 400,
\* else the body cut to its first 500 bytes.
ErrorMessageAbove(resp) ==
    IF resp.StatusCode > 400
    THEN [set |-> TRUE,
          text |-> IF Len(resp.Body.bytes) > ErrorMessageLimit
                   THEN SubSeq(resp.Body.bytes, 1, ErrorMessageLimit)
                   ELSE resp.Body.bytes]
    ELSE NoErrorMessage
ErrorMessage(resp) ==
    IF resp.StatusCode >= 400
    THEN [set |-> TRUE,
          text |-> IF Len(resp.Body.bytes) > ErrorMessageLimit
                   THEN SubSeq(resp.Body.bytes, 1, ErrorMessageLimit)
                   ELSE resp.Body.bytes]
    ELSE NoErrorMessage
NoBodyUpload ==
    [made |-> FALSE, Key |-> << >>, RequestHeaders |-> NoHeaders, RequestBody |-> << >>,
     ResponseHeaders |-> NoHeaders, ResponseBody |-> << >>, accepted |-> FALSE]

\* ExtractResponseHeaders: the first value of every header.
ExtractResponseHeaders(h) == [n \in { m \in DOMAIN h : Len(h[m]) > 0 } |-> h[n][1]]

\* config.Logging.BodyStorage, with StoreRequestBody and StoreResponseBody
\* set in the "postgres" case.
BodyStorages == {"s3", "postgres", "none"}

\* The handler after NewHandler, no request in it.
HandlerConstructed ==
    /\ hPc = "idle"
    /\ hReq = NoRequest
    /\ hInfo = NoAPIKeyInfo
    /\ hUp = NoForward
    /\ hResp = NoUpstreamResponse
    /\ hOut = NoResponse
    /\ lPc = "none"
    /\ lLog = NoRequestLog
    /\ lRow = NoRequestLog
    /\ lUpload = NoBodyUpload

\* The handler when it is not exercised.
HandlerIdle == hCfg = "none" /\ HandlerConstructed

HandlerInit == hCfg \in BodyStorages /\ HandlerConstructed

\* ServeHTTP lines 732-781: the key is resolved, the body read, the
\* headers extracted, the provider detected and the request rewritten when
\* it is to be translated.  A failed resolution is answered with 401 and
\* a failed read with 400.
ServeHTTP(r) ==
    /\ hPc = "idle"
    /\ \E info \in ResolveOutcomes(HeaderGet(r, <<"X-Majordomo", "-", "Key">>)),
          body \in RequestBodies :
         /\ hInfo' = info
         /\ IF ResolveFailed(info)
            THEN /\ hOut' = HTTPError(401)
                 /\ hPc' = "done"
                 /\ UNCHANGED hReq
            ELSE \/ /\ hOut' = HTTPError(400)
                    /\ hPc' = "done"
                    /\ UNCHANGED hReq
                 \/ /\ hReq' = [inbound |-> r,
                                Header |-> IF IsTranslationRequired(Detect(ChatCompletionsPath, extractHeaders(r)))
                                           THEN TranslateHeaders(r) ELSE r,
                                headers |-> extractHeaders(r),
                                providerKeyHash |->
                                    IF HeaderGet(r, <<"Authorization">>) # << >>
                                    THEN HashAPIKey(HeaderGet(r, <<"Authorization">>))
                                    ELSE << >>,
                                provider |-> Detect(ChatCompletionsPath, extractHeaders(r)),
                                body |-> body,
                                path |-> ChatCompletionsPath,
                                upstreamBody |->
                                    IF /\ IsTranslationRequired(Detect(ChatCompletionsPath, extractHeaders(r)))
                                       /\ ~TranslateOpenAIToAnthropic(body).err
                                    THEN TranslateOpenAIToAnthropic(body).body
                                    ELSE body,
                                Path |->
                                    IF /\ IsTranslationRequired(Detect(ChatCompletionsPath, extractHeaders(r)))
                                       /\ ~TranslateOpenAIToAnthropic(body).err
                                    THEN TranslateOpenAIToAnthropic(body).path
                                    ELSE ChatCompletionsPath]
                    /\ hPc' = "forward"
                    /\ UNCHANGED hOut
    /\ UNCHANGED <<now, hCfg, hUp, hResp, lPc, lLog, lRow, lUpload>>

\* ServeHTTP lines 791-799: the response of a translated request is
\* translated back when its status is below 400 and the translation
\* succeeds; the marshalled text is long or short.
TranslateResponseAlways(p, resp) ==
    IF /\ IsTranslationRequired(p)
       /\ ~TranslateAnthropicToOpenAI(resp.Body).err
    THEN { [resp EXCEPT !.Body = TranslateAnthropicToOpenAI(resp.Body).body, !.long = l] :
             l \in BOOLEAN }
    ELSE {resp}
TranslateResponse(p, resp) ==
    IF /\ IsTranslationRequired(p)
       /\ resp.StatusCode < 400
       /\ ~TranslateAnthropicToOpenAI(resp.Body).err
    THEN { [resp EXCEPT !.Body = TranslateAnthropicToOpenAI(resp.Body).body, !.long = l] :
             l \in BOOLEAN }
    ELSE {resp}

\* ServeHTTP lines 784-799 and UpstreamClient.Forward: the upstream request
\* is built with copyHeaders, the path and the body and sent; an error is
\* answered with 502.
ServeHTTPForward(resp) ==
    /\ hPc = "forward"
    /\ hUp' = [made |-> TRUE, Header |-> copyHeaders(hReq.Header),
               Body |-> hReq.upstreamBody, Path |-> hReq.Path]
    /\ IF resp.err
       THEN /\ hOut' = HTTPError(502)
            /\ hPc' = "done"
            /\ UNCHANGED hResp
       ELSE /\ hResp' \in TranslateResponse(hReq.provider, resp)
            /\ hPc' = "respond"
            /\ UNCHANGED hOut
    /\ UNCHANGED <<now, hCfg, hReq, hInfo, lPc, lLog, lRow, lUpload>>

\* ServeHTTP lines 802-824: the response is written to the caller and
\* logRequest is started.
ServeHTTPRespond ==
    /\ hPc = "respond"
    /\ hOut' = WriteResponse(hReq.Header, hResp)
    /\ hPc' = "done"
    /\ lPc' = "assemble"
    /\ UNCHANGED <<now, hCfg, hReq, hInfo, hUp, hResp, lLog, lRow, lUpload>>

\* logRequest lines 839-901: the response is parsed, the cost calculated
\* and the row assembled.
LogAssemble ==
    /\ lPc = "assemble"
    /\ lLog' = [NoRequestLog EXCEPT
                  !.MajordomoAPIKeyID = hInfo.id,
                  !.ProviderAPIKeyHash = hReq.providerKeyHash,
                  !.RawMetadata = extractCustomMetadata(hReq.headers),
                  !.StatusCode = hResp.StatusCode,
                  !.ErrorMessage = ErrorMessage(hResp)]
    /\ lPc' = "body"
    /\ UNCHANGED <<now, hCfg, hPc, hReq, hInfo, hUp, hResp, hOut, lRow, lUpload>>

\* logRequest lines 902-930: the bodies go to the uploader or into the row.
LogBodies ==
    /\ lPc = "body"
    /\ IF hCfg = "s3"
       THEN /\ lLog' = [lLog EXCEPT !.BodyS3Key = <<hInfo.id, "/", "request">>]
            /\ lUpload' = [made |-> TRUE, Key |-> <<hInfo.id, "/", "request">>,
                           RequestHeaders |-> hReq.headers,
                           RequestBody |-> <<"request-body">>,
                           ResponseHeaders |-> ExtractResponseHeaders(hResp.Headers),
                           ResponseBody |-> <<"response-body">>,
                           accepted |-> CanUpload(uploadChan)]
            /\ uploadChan' = Upload(uploadChan, <<hInfo.id, "/", "request">>)
       ELSE IF hCfg = "postgres"
       THEN /\ lLog' = [lLog EXCEPT !.RequestBody = <<"request-body">>,
                                    !.ResponseBody = <<"response-body">>]
            /\ UNCHANGED <<lUpload, uploadChan>>
       ELSE UNCHANGED <<lLog, lUpload, uploadChan>>
    /\ lPc' = "enqueue"
    /\ UNCHANGED <<now, hCfg, hPc, hReq, hInfo, hUp, hResp, hOut, lRow, svPc, svS3,
                   svInflight, uDone, uPc>>

\* logRequest line 932: h.storage.WriteRequestLog(ctx, log).
LogEnqueue ==
    /\ lPc = "enqueue"
    /\ lRow' = [lLog EXCEPT !.made = TRUE]
    /\ lPc' = "done"
    /\ UNCHANGED <<now, hCfg, hPc, hReq, hInfo, hUp, hResp, hOut, lLog, lUpload>>

\* The request and its logRequest call are over; the handler takes the
\* next request.
HandlerNext ==
    /\ hPc = "done"
    /\ lPc \in {"none", "done"}
    /\ hPc' = "idle"
    /\ hReq' = NoRequest
    /\ hInfo' = NoAPIKeyInfo
    /\ hUp' = NoForward
    /\ hResp' = NoUpstreamResponse
    /\ hOut' = NoResponse
    /\ lPc' = "none"
    /\ lLog' = NoRequestLog
    /\ lRow' = NoRequestLog
    /\ lUpload' = NoBodyUpload
    /\ UNCHANGED <<now, hCfg>>

(***************************************************************************)
(* Pure functions of the provider package, each applied once to an input   *)
(* drawn by the initial state.                                             *)
(***************************************************************************)
\* The values returned before any call.
NoTranslation == [called |-> FALSE, err |-> FALSE, body |-> Malformed, path |-> << >>]
NoUsageMetrics == [called |-> FALSE, err |-> FALSE]
NoText == [called |-> FALSE, err |-> FALSE, text |-> << >>]

\* No pure function is exercised.
DetectIdle ==
    /\ dPath = << >>
    /\ dHeaders = NoHeaders
    /\ dInfo = "none"
TranslateIdle ==
    /\ tBody = Malformed
    /\ tOut = NoTranslation
ParserIdle ==
    /\ aBody = Malformed
    /\ aMetrics = NoUsageMetrics
SecretsIdle ==
    /\ sKey = 0
    /\ sPlain = << >>
    /\ sBox = NoText
    /\ sOut = NoText
CodecIdle == DetectIdle /\ TranslateIdle /\ ParserIdle /\ SecretsIdle

\* Request paths: each rule's pattern alone, followed by more, preceded by
\* more, and patterns of two rules in one path.
DetectPaths ==
    { << >>, <<"/some/random/path">>, <<"/v1/models">>,
      <<"/v1/chat/completions">>, <<"/v1/completions">>, <<"/v1/embeddings">>,
      <<"/v1/responses">>, <<"/v1/responses", "/7">>, <<"/v1/messages">>,
      <<"/v1/messages", "/batches">>,
      <<"/x", "/v1/messages">>, <<"/x", "/v1/chat/completions">>,
      <<"/v1beta/models/gemini:", "generateContent">>,
      <<"/v1beta/models/gemini:", "streamGenerateContent">>,
      <<"/v1/messages", ":", "generateContent">>,
      <<"/v1/chat/completions", ":", "streamGenerateContent">> }

\* Values of the explicit header: every provider name, names in another
\* case, and values that name no provider.
ExplicitProviders ==
    { <<"openai">>, <<"OpenAI">>, <<"anthropic">>, <<"Anthropic">>, <<"gemini">>,
      <<"GEMINI">>, <<"gemini-openai">>, <<"anthropic-openai">>, <<"Anthropic-OpenAI">>,
      <<"azure">>, <<"bedrock">>, <<"unknown">>, <<"mistral">>, << >>,
      <<"openai", " ">> }

\* The header maps Detect is given: the explicit header under its
\* lower-cased name, under another name, or not at all.
DetectHeaders ==
    { NoHeaders, (<<"x-majordomo", "-", "team">> :> <<"ml">>) }
    \cup { (<<"x-majordomo", "-", "provider">> :> v) : v \in ExplicitProviders }
    \cup { (<<"x-majordomo", "-", "provider-alias">> :> v) : v \in {<<"anthropic">>, <<"gemini">>} }

DetectInit ==
    /\ dPath \in DetectPaths
    /\ dHeaders \in DetectHeaders
    /\ dInfo = "none"

\* Detect is called on the input.
DetectCall ==
    /\ dInfo = "none"
    /\ dInfo' = Detect(dPath, dHeaders)
    /\ UNCHANGED <<dPath, dHeaders>>

TranslateInit ==
    /\ tBody \in OpenAIRequests
    /\ tOut = NoTranslation

\* The handler translates the request body.
TranslateCall ==
    /\ ~tOut.called
    /\ tOut' = TranslateOpenAIToAnthropic(tBody)
    /\ UNCHANGED tBody

\* Go's int: two's complement of IntBits bits; an addition wraps.
MaxInt == 2 ^ (IntBits - 1) - 1
WrapInt(x) == ((x + 2 ^ (IntBits - 1)) % (2 ^ IntBits)) - 2 ^ (IntBits - 1)
AddInt(x, y) == WrapInt(x + y)

\* The usage object of an Anthropic response: each of the four counts is
\* there or not; a count is any number an int holds, the largest included.
UsageFields ==
    { "input_tokens", "output_tokens", "cache_read_input_tokens",
      "cache_creation_input_tokens" }
UsageCounts == {0, 1, MaxInt \div 2 + 1, MaxInt}
UsageObjects == UNION { [F -> UsageCounts] : F \in SUBSET UsageFields }
AnthropicResponses ==
    { [valid |-> TRUE, model |-> "claude", usage |-> u] : u \in UsageObjects }
    \cup {Malformed}

\* json.Unmarshal into anthropicResponse: a field the body lacks keeps the
\* zero value.
UsageField(usage, name) == IF name \in DOMAIN usage THEN usage[name] ELSE 0

\* The sum without the cache-creation count.
totalInputWithoutCreation(usage) ==
    AddInt(UsageField(usage, "input_tokens"), UsageField(usage, "cache_read_input_tokens"))

\* Line 30: totalInput, two int additions.
totalInput(usage) ==
    AddInt(AddInt(UsageField(usage, "input_tokens"),
                  UsageField(usage, "cache_read_input_tokens")),
           UsageField(usage, "cache_creation_input_tokens"))

\* AnthropicParser.ParseResponse(body).
ParseResponse(body) ==
    IF ~body.valid
    THEN [called |-> TRUE, err |-> TRUE]
    ELSE [called |-> TRUE, err |-> FALSE,
          Provider |-> "anthropic",
          Model |-> body.model,
          InputTokens |-> totalInput(body.usage),
          OutputTokens |-> UsageField(body.usage, "output_tokens"),
          CachedTokens |-> UsageField(body.usage, "cache_read_input_tokens"),
          CacheCreationTokens |-> UsageField(body.usage, "cache_creation_input_tokens")]

ParserInit ==
    /\ aBody \in AnthropicResponses
    /\ aMetrics = NoUsageMetrics

\* The handler parses the upstream response.
ParseResponseCall ==
    /\ ~aMetrics.called
    /\ aMetrics' = ParseResponse(aBody)
    /\ UNCHANGED aBody

(***************************************************************************)
(* The secret box (AESStore, internal/secrets/aes.go).  An octet is a      *)
(* number of 0..3; AES-GCM is a keystream added to the plaintext, octet by *)
(* octet, followed by a tag over key, nonce and ciphertext; base64 writes  *)
(* each octet as a letter.                                                 *)
(***************************************************************************)
Octets == 0..3
RECURSIVE SumSeq(_)
SumSeq(q) == IF q = << >> THEN 0 ELSE Head(q) + SumSeq(Tail(q))

\* The keystream octet at position i, and the authentication tag.
KeyStream(key, nonce, i) == (key + 2 * SumSeq(nonce) + nonce[1] + i) % 4
GCMTag(key, nonce, ct) == (key + SumSeq(nonce) + SumSeq(ct) + Len(ct) + 1) % 4

\* gcm.Seal(nonce, nonce, plaintext, nil): nonce, ciphertext and tag.
Seal(key, nonce, plaintext) ==
    LET ct == [i \in 1..Len(plaintext) |-> (plaintext[i] + KeyStream(key, nonce, i)) % 4]
    IN nonce \o ct \o <<GCMTag(key, nonce, ct)>>

\* gcm.Open(nil, nonce, encrypted, nil): the plaintext, or an error when
\* the tag is missing or wrong.
Open(key, nonce, encrypted) ==
    IF Len(encrypted) < 1 THEN [err |-> TRUE, text |-> << >>]
    ELSE LET ct == SubSeq(encrypted, 1, Len(encrypted) - 1)
             tag == encrypted[Len(encrypted)]
         IN IF tag # GCMTag(key, nonce, ct) THEN [err |-> TRUE, text |-> << >>]
            ELSE [err |-> FALSE,
                  text |-> [i \in 1..Len(ct) |-> (ct[i] + 4 - KeyStream(key, nonce, i)) % 4]]

\* base64.StdEncoding: EncodeToString, and DecodeString with its error.
Base64Letters == <<"A", "B", "C", "D">>
EncodeToString(data) == [i \in 1..Len(data) |-> Base64Letters[data[i] + 1]]
DecodeOctet(x) == CHOOSE b \in Octets : Base64Letters[b + 1] = x
DecodeString(text) ==
    IF \E i \in 1..Len(text) : \A b \in Octets : Base64Letters[b + 1] # text[i]
    THEN [err |-> TRUE, data |-> << >>]
    ELSE [err |-> FALSE, data |-> [i \in 1..Len(text) |-> DecodeOctet(text[i])]]

\* AESStore.Encrypt(plaintext) with the nonce rand.Reader gave.
AESEncrypt(key, nonce, plaintext) ==
    [called |-> TRUE, err |-> FALSE, text |-> EncodeToString(Seal(key, nonce, plaintext))]

\* Decrypt taking the nonce to be one octet longer than it is.
AESDecryptLongNonce(key, ciphertext) ==
    LET d == DecodeString(ciphertext)
        o == Open(key, SubSeq(d.data, 1, NonceSize + 1),
                  SubSeq(d.data, NonceSize + 2, Len(d.data)))
    IN [called |-> TRUE, err |-> d.err \/ o.err, text |-> o.text]

\* AESStore.Decrypt(ciphertext).
AESDecrypt(key, ciphertext) ==
    LET d == DecodeString(ciphertext)
    IN IF d.err THEN [called |-> TRUE, err |-> TRUE, text |-> << >>]
       ELSE IF Len(d.data) < NonceSize THEN [called |-> TRUE, err |-> TRUE, text |-> << >>]
       ELSE LET o == Open(key, SubSeq(d.data, 1, NonceSize),
                          SubSeq(d.data, NonceSize + 1, Len(d.data)))
            IN [called |-> TRUE, err |-> o.err, text |-> o.text]

\* A store built from a valid key, and a plaintext, the empty one included.
SecretsInit ==
    /\ sKey \in {1, 2}
    /\ sPlain \in UNION { [1..n -> Octets] : n \in 0..MaxPlain }
    /\ sBox = NoText
    /\ sOut = NoText

\* Encrypt(sPlain): the nonce is read from rand.Reader, which may fail.
EncryptCall ==
    /\ ~sBox.called
    /\ \/ \E nonce \in [1..NonceSize -> Octets] : sBox' = AESEncrypt(sKey, nonce, sPlain)
       \/ sBox' = [called |-> TRUE, err |-> TRUE, text |-> << >>]
    /\ UNCHANGED <<sKey, sPlain, sOut>>

\* Decrypt of what Encrypt returned.
DecryptCall ==
    /\ sBox.called /\ ~sBox.err /\ ~sOut.called
    /\ sOut' = AESDecrypt(sKey, sBox.text)
    /\ UNCHANGED <<sKey, sPlain, sBox>>

(***************************************************************************)
(* Specifications.                                                         *)
(***************************************************************************)
NextResolver ==
    \/ \E c \in Callers, k \in OperatorKeys \cup {EmptyKey} :
          ResolveAPIKey(c, k) /\ UNCHANGED <<proxyVars, sinkVars, pricingVars, handlerVars, codecVars, lookupVars, serveVars>>
    \/ \E c \in Callers : ResolveAPIKeyLookup(c) /\ UNCHANGED <<proxyVars, sinkVars, pricingVars, handlerVars, codecVars, lookupVars, serveVars>>
    \/ \E c \in Callers : ResolveAPIKeyFill(c) /\ UNCHANGED <<proxyVars, sinkVars, pricingVars, handlerVars, codecVars, lookupVars, serveVars>>
    \/ \E h \in OperatorHashes : ResolverInvalidateCache(h) /\ UNCHANGED <<proxyVars, sinkVars, pricingVars, handlerVars, codecVars, lookupVars, serveVars>>
    \/ \E h \in OperatorHashes : RevokeAPIKey(h) /\ UNCHANGED <<proxyVars, sinkVars, pricingVars, handlerVars, codecVars, lookupVars, serveVars>>
    \/ (ResolverTick /\ UNCHANGED <<proxyVars, sinkVars, pricingVars, handlerVars, codecVars, lookupVars, serveVars>>)

InitResolver ==
    /\ now = 0
    /\ ResolverInit
    /\ ProxyIdle
    /\ SinkIdle
    /\ PricingIdle
    /\ HandlerIdle
    /\ CodecIdle
    /\ LookupIdle
    /\ ServeIdle

SpecResolver == InitResolver /\ [][NextResolver]_vars

NextProxy ==
    \/ \E c \in Callers, k \in AuthKeys, p \in Providers, o \in OperatorIds :
          ResolveProxyKey(c, k, p, o) /\ UNCHANGED <<resolverVars, sinkVars, pricingVars, handlerVars, codecVars, lookupVars, serveVars>>
    \/ \E c \in Callers : ResolveProxyKeyLookup(c) /\ UNCHANGED <<resolverVars, sinkVars, pricingVars, handlerVars, codecVars, lookupVars, serveVars>>
    \/ \E c \in Callers : ResolveProxyKeyMapping(c) /\ UNCHANGED <<resolverVars, sinkVars, pricingVars, handlerVars, codecVars, lookupVars, serveVars>>
    \/ \E c \in Callers : ResolveProxyKeyFill(c) /\ UNCHANGED <<resolverVars, sinkVars, pricingVars, handlerVars, codecVars, lookupVars, serveVars>>
    \/ \E h \in ProxyHashes : ProxyInvalidateCache(h) /\ UNCHANGED <<resolverVars, sinkVars, pricingVars, handlerVars, codecVars, lookupVars, serveVars>>
    \/ \E h \in ProxyHashes : RevokeProxyKey(h) /\ UNCHANGED <<resolverVars, sinkVars, pricingVars, handlerVars, codecVars, lookupVars, serveVars>>
    \/ (ProxyTick /\ UNCHANGED <<resolverVars, sinkVars, pricingVars, handlerVars, codecVars, lookupVars, serveVars>>)

InitProxy ==
    /\ now = 0
    /\ ResolverIdle
    /\ ProxyInit
    /\ SinkIdle
    /\ PricingIdle
    /\ HandlerIdle
    /\ CodecIdle
    /\ LookupIdle
    /\ ServeIdle

SpecProxy == InitProxy /\ [][NextProxy]_vars

NextSink ==
    \/ \E owner \in {NoOwner, "A"}, raw \in RawMetadata :
          WriteRequestLog(owner, raw) /\ UNCHANGED <<resolverVars, proxyVars, pricingVars, handlerVars, codecVars, lookupVars, serveVars>>
    \/ (WriterReceive /\ UNCHANGED <<resolverVars, proxyVars, pricingVars, handlerVars, codecVars, lookupVars, serveVars>>)
    \/ (WriterAddValues /\ UNCHANGED <<resolverVars, proxyVars, pricingVars, handlerVars, codecVars, lookupVars, serveVars>>)
    \/ (WriterRegister /\ UNCHANGED <<resolverVars, proxyVars, pricingVars, handlerVars, codecVars, lookupVars, serveVars>>)
    \/ (WriterSeesDone /\ UNCHANGED <<resolverVars, proxyVars, pricingVars, handlerVars, codecVars, lookupVars, serveVars>>)
    \/ (WriterExit /\ UNCHANGED <<resolverVars, proxyVars, pricingVars, handlerVars, codecVars, lookupVars, serveVars>>)
    \/ \E final \in BOOLEAN : FlushBegin(final) /\ UNCHANGED <<resolverVars, proxyVars, pricingVars, handlerVars, codecVars, lookupVars, serveVars>>
    \/ (FlushPersist /\ UNCHANGED <<resolverVars, proxyVars, pricingVars, handlerVars, codecVars, lookupVars, serveVars>>)
    \/ (CloseDone /\ UNCHANGED <<resolverVars, proxyVars, pricingVars, handlerVars, codecVars, lookupVars, serveVars>>)
    \/ (CloseStop /\ UNCHANGED <<resolverVars, proxyVars, pricingVars, handlerVars, codecVars, lookupVars, serveVars>>)
    \/ (CloseDB /\ UNCHANGED <<resolverVars, proxyVars, pricingVars, handlerVars, codecVars, lookupVars, serveVars>>)

InitSink ==
    /\ now = 0
    /\ ResolverIdle
    /\ ProxyIdle
    /\ SinkInit
    /\ PricingIdle
    /\ HandlerIdle
    /\ CodecIdle
    /\ LookupIdle
    /\ ServeIdle

SpecSink == InitSink /\ [][NextSink]_vars

NextPricing ==
    \/ \E x \in Exchanges : Refresh(x) /\ UNCHANGED <<resolverVars, proxyVars, sinkVars, handlerVars, codecVars, lookupVars, serveVars>>
    \/ (RefreshLoopExit /\ UNCHANGED <<resolverVars, proxyVars, sinkVars, handlerVars, codecVars, lookupVars, serveVars>>)
    \/ (PricingClose /\ UNCHANGED <<resolverVars, proxyVars, sinkVars, handlerVars, codecVars, lookupVars, serveVars>>)
    \/ \E m \in Metrics : Calculate(m) /\ UNCHANGED <<resolverVars, proxyVars, sinkVars, handlerVars, codecVars, lookupVars, serveVars>>
    \/ (CalculateReturn /\ UNCHANGED <<resolverVars, proxyVars, sinkVars, handlerVars, codecVars, lookupVars, serveVars>>)
    \/ (RefreshStore /\ UNCHANGED <<resolverVars, proxyVars, sinkVars, handlerVars, codecVars, lookupVars, serveVars>>)

InitPricing ==
    /\ now = 0
    /\ ResolverIdle
    /\ ProxyIdle
    /\ SinkIdle
    /\ PricingInit
    /\ HandlerIdle
    /\ CodecIdle
    /\ LookupIdle
    /\ ServeIdle

SpecPricing == InitPricing /\ [][NextPricing]_vars

NextHLL ==
    \/ \E k \in MetadataKeys, v \in MetadataValues :
          HLLAddValue(k, v) /\ UNCHANGED <<resolverVars, proxyVars, pricingVars, handlerVars, codecVars, lookupVars, serveVars>>
    \/ \E final \in BOOLEAN :
          FlushBegin(final) /\ UNCHANGED <<resolverVars, proxyVars, pricingVars, handlerVars, codecVars, lookupVars, serveVars>>
    \/ (FlushPersist /\ UNCHANGED <<resolverVars, proxyVars, pricingVars, handlerVars, codecVars, lookupVars, serveVars>>)
    \/ (CloseDone /\ UNCHANGED <<resolverVars, proxyVars, pricingVars, handlerVars, codecVars, lookupVars, serveVars>>)
    \/ (CloseStop /\ UNCHANGED <<resolverVars, proxyVars, pricingVars, handlerVars, codecVars, lookupVars, serveVars>>)
    \/ (CloseDB /\ UNCHANGED <<resolverVars, proxyVars, pricingVars, handlerVars, codecVars, lookupVars, serveVars>>)

InitHLL ==
    /\ now = 0
    /\ ResolverIdle
    /\ ProxyIdle
    /\ HLLInit
    /\ PricingIdle
    /\ HandlerIdle
    /\ CodecIdle
    /\ LookupIdle
    /\ ServeIdle

SpecHLL == InitHLL /\ [][NextHLL]_vars

\* The sink when no MarshalBinary and no UPDATE of Flush fails.
NextCounted ==
    \/ \E owner \in {NoOwner, "A"}, raw \in RawMetadata :
          WriteRequestLog(owner, raw) /\ UNCHANGED <<resolverVars, proxyVars, pricingVars, handlerVars, codecVars, lookupVars, serveVars>>
    \/ (WriterReceive /\ UNCHANGED <<resolverVars, proxyVars, pricingVars, handlerVars, codecVars, lookupVars, serveVars>>)
    \/ (WriterAddValues /\ UNCHANGED <<resolverVars, proxyVars, pricingVars, handlerVars, codecVars, lookupVars, serveVars>>)
    \/ (WriterRegister /\ UNCHANGED <<resolverVars, proxyVars, pricingVars, handlerVars, codecVars, lookupVars, serveVars>>)
    \/ (WriterSeesDone /\ UNCHANGED <<resolverVars, proxyVars, pricingVars, handlerVars, codecVars, lookupVars, serveVars>>)
    \/ (WriterExit /\ UNCHANGED <<resolverVars, proxyVars, pricingVars, handlerVars, codecVars, lookupVars, serveVars>>)
    \/ \E final \in BOOLEAN : FlushBegin(final) /\ UNCHANGED <<resolverVars, proxyVars, pricingVars, handlerVars, codecVars, lookupVars, serveVars>>
    \/ (FlushWrite({}) /\ UNCHANGED <<resolverVars, proxyVars, pricingVars, handlerVars, codecVars, lookupVars, serveVars>>)
    \/ (CloseDone /\ UNCHANGED <<resolverVars, proxyVars, pricingVars, handlerVars, codecVars, lookupVars, serveVars>>)
    \/ (CloseStop /\ UNCHANGED <<resolverVars, proxyVars, pricingVars, handlerVars, codecVars, lookupVars, serveVars>>)
    \/ (CloseDB /\ UNCHANGED <<resolverVars, proxyVars, pricingVars, handlerVars, codecVars, lookupVars, serveVars>>)

SpecCounted == InitSink /\ [][NextCounted]_vars

NextHandler ==
    \/ \E r \in InboundHeaders :
          ServeHTTP(r) /\ UNCHANGED <<resolverVars, proxyVars, sinkVars, pricingVars, codecVars, lookupVars, serveVars>>
    \/ \E resp \in UpstreamResponses :
          ServeHTTPForward(resp) /\ UNCHANGED <<resolverVars, proxyVars, sinkVars, pricingVars, codecVars, lookupVars, serveVars>>
    \/ (ServeHTTPRespond /\ UNCHANGED <<resolverVars, proxyVars, sinkVars, pricingVars, codecVars, lookupVars, serveVars>>)
    \/ (LogAssemble /\ UNCHANGED <<resolverVars, proxyVars, sinkVars, pricingVars, codecVars, lookupVars, serveVars>>)
    \/ (LogBodies /\ UNCHANGED <<resolverVars, proxyVars, sinkVars, pricingVars, codecVars, lookupVars>>)
    \/ (LogEnqueue /\ UNCHANGED <<resolverVars, proxyVars, sinkVars, pricingVars, codecVars, lookupVars, serveVars>>)
    \/ (HandlerNext /\ UNCHANGED <<resolverVars, proxyVars, sinkVars, pricingVars, codecVars, lookupVars, serveVars>>)
    \/ (UploaderReceive /\ UNCHANGED <<now, resolverVars, proxyVars, sinkVars, pricingVars, handlerVars, codecVars, lookupVars>>)

InitHandler ==
    /\ now = 0
    /\ ResolverIdle
    /\ ProxyIdle
    /\ SinkIdle
    /\ PricingIdle
    /\ HandlerInit
    /\ CodecIdle
    /\ LookupIdle
    /\ ServeConstructed
    /\ svS3 = (hCfg = "s3")

SpecHandler == InitHandler /\ [][NextHandler]_vars

\* The serve command from the moment it serves: requests come and go, a
\* signal or a server error ends the serving, and the deferred calls run
\* while the goroutines of the store and of the uploader go on.
NextServe ==
    \/ (ServeAccept /\ UNCHANGED <<resolverVars, proxyVars, handlerVars, codecVars, lookupVars>>)
    \/ (ServeFinish /\ UNCHANGED <<resolverVars, proxyVars, handlerVars, codecVars, lookupVars>>)
    \/ (ServeError /\ UNCHANGED <<resolverVars, proxyVars, handlerVars, codecVars, lookupVars>>)
    \/ (ServeSignal /\ UNCHANGED <<resolverVars, proxyVars, handlerVars, codecVars, lookupVars>>)
    \/ (ServeShutdown /\ UNCHANGED <<resolverVars, proxyVars, handlerVars, codecVars, lookupVars>>)
    \/ (ServeCloseS3 /\ UNCHANGED <<resolverVars, proxyVars, handlerVars, codecVars, lookupVars>>)
    \/ (ServeClosePricing /\ UNCHANGED <<resolverVars, proxyVars, handlerVars, codecVars, lookupVars>>)
    \/ (ServeCloseStore /\ UNCHANGED <<resolverVars, proxyVars, handlerVars, codecVars, lookupVars>>)
    \/ (ServeReturn /\ UNCHANGED <<resolverVars, proxyVars, handlerVars, codecVars, lookupVars>>)
    \/ (UploaderReceive /\ UNCHANGED <<now, resolverVars, proxyVars, sinkVars, pricingVars, handlerVars, codecVars, lookupVars>>)
    \/ (UploaderExit /\ UNCHANGED <<now, resolverVars, proxyVars, sinkVars, pricingVars, handlerVars, codecVars, lookupVars>>)
    \/ \E raw \in RawMetadata :
          /\ ProcessAlive
          /\ svInflight > 0
          /\ WriteRequestLog(NoOwner, raw)
          /\ UNCHANGED <<resolverVars, proxyVars, pricingVars, handlerVars, codecVars, lookupVars, serveVars>>
    \/ (ProcessAlive /\ WriterReceive /\ UNCHANGED <<resolverVars, proxyVars, pricingVars, handlerVars, codecVars, lookupVars, serveVars>>)
    \/ (ProcessAlive /\ WriterSeesDone /\ UNCHANGED <<resolverVars, proxyVars, pricingVars, handlerVars, codecVars, lookupVars, serveVars>>)
    \/ (ProcessAlive /\ WriterExit /\ UNCHANGED <<resolverVars, proxyVars, pricingVars, handlerVars, codecVars, lookupVars, serveVars>>)
    \/ (ProcessAlive /\ CloseStop /\ UNCHANGED <<resolverVars, proxyVars, pricingVars, handlerVars, codecVars, lookupVars, serveVars>>)
    \/ \E final \in BOOLEAN :
          ProcessAlive /\ FlushBegin(final) /\ UNCHANGED <<resolverVars, proxyVars, pricingVars, handlerVars, codecVars, lookupVars, serveVars>>
    \/ (ProcessAlive /\ CloseDB /\ UNCHANGED <<resolverVars, proxyVars, pricingVars, handlerVars, codecVars, lookupVars, serveVars>>)

InitServe ==
    /\ now = 0
    /\ ResolverIdle
    /\ ProxyIdle
    /\ SinkIdle
    /\ PricingIdle
    /\ HandlerIdle
    /\ CodecIdle
    /\ LookupIdle
    /\ ServeInit

SpecServe == InitServe /\ [][NextServe]_vars

\* The credential cache over time: one caller resolves the first proxy key
\* as its owner for either provider while the owner changes the mappings.
NextProxyTimed ==
    \/ \E p \in Providers :
          ResolveProxyKey("c1", <<"mdm_pk_", "1">>, p, "A") /\ UNCHANGED <<resolverVars, sinkVars, pricingVars, handlerVars, codecVars, lookupVars, serveVars>>
    \/ (ResolveProxyKeyLookup("c1") /\ UNCHANGED <<resolverVars, sinkVars, pricingVars, handlerVars, codecVars, lookupVars, serveVars>>)
    \/ (ResolveProxyKeyMapping("c1") /\ UNCHANGED <<resolverVars, sinkVars, pricingVars, handlerVars, codecVars, lookupVars, serveVars>>)
    \/ (ResolveProxyKeyFill("c1") /\ UNCHANGED <<resolverVars, sinkVars, pricingVars, handlerVars, codecVars, lookupVars, serveVars>>)
    \/ \E p \in Providers :
          SetProviderMapping("P1", p) /\ UNCHANGED <<resolverVars, sinkVars, pricingVars, handlerVars, codecVars, lookupVars, serveVars>>
    \/ (ProxyTick /\ UNCHANGED <<resolverVars, sinkVars, pricingVars, handlerVars, codecVars, lookupVars, serveVars>>)

InitProxyTimed ==
    /\ now = 0
    /\ ResolverIdle
    /\ ProxyInitTimed
    /\ SinkIdle
    /\ PricingIdle
    /\ HandlerIdle
    /\ CodecIdle
    /\ LookupIdle
    /\ ServeIdle

SpecProxyTimed == InitProxyTimed /\ [][NextProxyTimed]_vars

\* The two caches with an expiry of their entries, over time: one caller
\* resolves the first operator key, the active keys of the owner are asked
\* for, the operator changes a descriptor, and time passes.
CachesTick ==
    /\ ResolverTick
    /\ akRes' = NoActiveKeysResult
    /\ UNCHANGED <<akPc, akFetched, akStale>>

\* Time passes for the active-keys cache.
ActiveKeysTick ==
    /\ Tick
    /\ akRes' = NoActiveKeysResult
    /\ UNCHANGED <<sinkVars, akPc, akFetched, akStale>>

\* The active-keys cache with a call in flight: the log writer asks for the
\* active keys of the owner while the operator changes descriptors and
\* invalidates the entry, and time passes.
NextActiveKeys ==
    \/ (GetActiveKeysBegin /\ UNCHANGED <<resolverVars, proxyVars, pricingVars, handlerVars, codecVars, serveVars>>)
    \/ (GetActiveKeysFetch /\ UNCHANGED <<resolverVars, proxyVars, pricingVars, handlerVars, codecVars, serveVars>>)
    \/ (GetActiveKeysStore /\ UNCHANGED <<resolverVars, proxyVars, pricingVars, handlerVars, codecVars, serveVars>>)
    \/ (InvalidateAPIKey /\ UNCHANGED <<resolverVars, proxyVars, pricingVars, handlerVars, codecVars, serveVars>>)
    \/ \E k \in MetadataKeys, active \in BOOLEAN :
          SetActive(k, active) /\ UNCHANGED <<resolverVars, proxyVars, pricingVars, handlerVars, codecVars, serveVars>>
    \/ (ActiveKeysTick /\ UNCHANGED <<resolverVars, proxyVars, pricingVars, handlerVars, codecVars, serveVars>>)

InitActiveKeys ==
    /\ now = 0
    /\ ResolverIdle
    /\ ProxyIdle
    /\ SinkInit
    /\ PricingIdle
    /\ HandlerIdle
    /\ CodecIdle
    /\ LookupIdle
    /\ ServeIdle

SpecActiveKeys == InitActiveKeys /\ [][NextActiveKeys]_vars

NextCaches ==
    \/ (ResolveAPIKey("c1", <<"mdm_sk_", "1">>) /\ UNCHANGED <<proxyVars, sinkVars, pricingVars, handlerVars, codecVars, lookupVars, serveVars>>)
    \/ (ResolveAPIKeyLookup("c1") /\ UNCHANGED <<proxyVars, sinkVars, pricingVars, handlerVars, codecVars, lookupVars, serveVars>>)
    \/ (ResolveAPIKeyFill("c1") /\ UNCHANGED <<proxyVars, sinkVars, pricingVars, handlerVars, codecVars, lookupVars, serveVars>>)
    \/ (GetActiveKeysCall /\ UNCHANGED <<resolverVars, proxyVars, pricingVars, handlerVars, codecVars, serveVars>>)
    \/ \E k \in MetadataKeys, active \in BOOLEAN :
          SetActive(k, active) /\ UNCHANGED <<resolverVars, proxyVars, pricingVars, handlerVars, codecVars, serveVars>>
    \/ (CachesTick /\ UNCHANGED <<proxyVars, sinkVars, pricingVars, handlerVars, codecVars, serveVars>>)

InitCaches ==
    /\ now = 0
    /\ ResolverInit
    /\ ProxyIdle
    /\ SinkInit
    /\ PricingIdle
    /\ HandlerIdle
    /\ CodecIdle
    /\ LookupIdle
    /\ ServeIdle

SpecCaches == InitCaches /\ [][NextCaches]_vars

NextDetect ==
    DetectCall /\ UNCHANGED <<stateVars, translateVars, parserVars, secretsVars>>

InitDetect ==
    /\ now = 0
    /\ ResolverIdle
    /\ ProxyIdle
    /\ SinkIdle
    /\ PricingIdle
    /\ HandlerIdle
    /\ DetectInit
    /\ TranslateIdle
    /\ ParserIdle
    /\ SecretsIdle
    /\ LookupIdle
    /\ ServeIdle

SpecDetect == InitDetect /\ [][NextDetect]_vars

NextTranslate ==
    TranslateCall /\ UNCHANGED <<stateVars, detectVars, parserVars, secretsVars>>

InitTranslate ==
    /\ now = 0
    /\ ResolverIdle
    /\ ProxyIdle
    /\ SinkIdle
    /\ PricingIdle
    /\ HandlerIdle
    /\ DetectIdle
    /\ TranslateInit
    /\ ParserIdle
    /\ SecretsIdle
    /\ LookupIdle
    /\ ServeIdle

SpecTranslate == InitTranslate /\ [][NextTranslate]_vars

NextParser ==
    ParseResponseCall /\ UNCHANGED <<stateVars, detectVars, translateVars, secretsVars>>

InitParser ==
    /\ now = 0
    /\ ResolverIdle
    /\ ProxyIdle
    /\ SinkIdle
    /\ PricingIdle
    /\ HandlerIdle
    /\ DetectIdle
    /\ TranslateIdle
    /\ ParserInit
    /\ SecretsIdle
    /\ LookupIdle
    /\ ServeIdle

SpecParser == InitParser /\ [][NextParser]_vars

NextSecrets ==
    \/ (EncryptCall /\ UNCHANGED <<stateVars, detectVars, translateVars, parserVars>>)
    \/ (DecryptCall /\ UNCHANGED <<stateVars, detectVars, translateVars, parserVars>>)

InitSecrets ==
    /\ now = 0
    /\ ResolverIdle
    /\ ProxyIdle
    /\ SinkIdle
    /\ PricingIdle
    /\ HandlerIdle
    /\ DetectIdle
    /\ TranslateIdle
    /\ ParserIdle
    /\ SecretsInit
    /\ LookupIdle
    /\ ServeIdle

SpecSecrets == InitSecrets /\ [][NextSecrets]_vars

(***************************************************************************)
(* Properties of the proxy-key resolver.                                   *)
(***************************************************************************)

\* C1: the proxy-key resolver never returns a decrypted credential to a
\* caller whose operator-key id differs from the owner id of the proxy
\* key, also when the rightful owner has already resolved the same key and
\* provider: every call that returns a credential was made with the
\* owner's id.
C1_CredentialOnlyToOwner ==
    pRes.kind = "ok" => pRes.majordomoKeyID = ProxyOwnerOf(pRes.hash)

\* C4: the next ResolveProxyKey for a digest after InvalidateCache(digest)
\* is answered from the store: the first call begun after the invalidation
\* does not return from the caches but goes on to query the store.
C4_NextResolveFromStore ==
    [][\A c \in Callers, k \in ProxyKeys, p \in Providers, o \in OperatorIds :
          (ResolveProxyKey(c, k, p, o) /\ HashAPIKey(k) \in pWiped)
              => pPc'[c] = "key"]_vars

(***************************************************************************)
(* Properties of the operator-key resolver.                                *)
(***************************************************************************)

\* C2: the operator-key resolver never authorizes an inactive record: a
\* ResolveAPIKey call that returns success does so only for a key whose
\* store record has its active flag true.  (Stated in the reading most
\* favourable to the code: the record was active at least when the call
\* began; a record, once inactive, stays inactive.)
C2_SuccessOnlyForActive ==
    rRes.kind = "ok" => rRes.wasActive

\* C3: after an operator key is revoked in the store and InvalidateCache
\* is then called for its digest, the next ResolveAPIKey for that key
\* returns the Revoked failure (the store answering), not a stale success,
\* whatever resolves of the key were in flight during the revocation.
C3_RevokedAfterInvalidate ==
    (rRes.next /\ rRes.kind # "StoreErr") => rRes.kind = "Revoked"

(***************************************************************************)
(* Properties of the log sink.                                             *)
(***************************************************************************)
Ids(q) == [i \in 1..Len(q) |-> q[i].id]
Range(q) == { q[i] : i \in 1..Len(q) }

\* Some row can be offered to WriteRequestLog and the call returns.
WriteReturns ==
    \E owner \in {NoOwner, "A"}, raw \in RawMetadata :
        WriteRequestLog(owner, raw) /\ UNCHANGED <<resolverVars, proxyVars, pricingVars, handlerVars, codecVars, lookupVars, serveVars>>

\* C5: WriteRequestLog never blocks the caller: whatever the state of the
\* queue the call returns, and when the queue holds its capacity of rows
\* the row is dropped and the queue left as it is; the queue never holds
\* more than its capacity and a dropped row is never handed to the writer
\* nor written.
C5_WriteNeverBlocks ==
    /\ [](Len(logChan) <= LogChanCap)
    /\ [](dropped \cap (Range(handled) \cup Range(Ids(written)) \cup Range(Ids(logChan))) = {})
    /\ [](nextId <= MaxRows => ENABLED WriteReturns)
    /\ [][(WriteReturns /\ Len(logChan) = LogChanCap)
             => (logChan' = logChan /\ nextId \in dropped')]_vars

\* A row was dropped on a full queue; the rows accepted before it have all
\* been written and the queue is empty.
C5_Witness ==
    /\ dropped # {}
    /\ Len(accepted) = LogChanCap
    /\ Ids(written) = accepted
    /\ Len(logChan) = 0

\* C6: after Close has returned the queue is empty: every row that
\* WriteRequestLog accepted has been handed to writeLog, also the rows
\* that background log tasks enqueue while Close runs.
C6_QueueEmptyAfterClose ==
    closePc = "closed" => (Len(logChan) = 0 /\ handled = accepted)

\* C7: after Close has returned no sketch entry is left with additions or
\* a request-count delta that no flush has taken to the store, also for
\* the rows that the writer drains during shutdown.
C7_NothingDirtyAfterClose ==
    closePc = "closed" => \A k \in MetadataKeys : ~hlls[k].dirty /\ hlls[k].count = 0

\* C8: the rows are handed to writeLog, and written, in the order in which
\* WriteRequestLog accepted them, in normal operation and in the drain:
\* the rows handed over followed by the rows queued are the rows accepted,
\* and the written rows appear in that order.
C8_FIFO ==
    /\ accepted = handled \o Ids(logChan)
    /\ \A i, j \in 1..Len(written) :
         i < j => \E a, b \in 1..Len(accepted) :
                     a < b /\ accepted[a] = written[i].id /\ accepted[b] = written[j].id

\* Two rows were queued together and written, the second one by the drain
\* loop after Close had begun.
C8_Witness ==
    /\ wDrain
    /\ wPc = "add"
    /\ Len(written) >= 2
    /\ written[Len(written)].id = wRow.id
    /\ Len(logChan) > 0

\* C9: for every row written, the keys of indexed_metadata are keys of
\* raw_metadata and members of the set GetActiveKeys returned for the
\* row's owner, every indexed value is the raw value of its key, the two
\* maps are equal when every raw key is in that set, and a row without an
\* owner has an empty indexed map.
C9_IndexedSubset ==
    \A i \in 1..Len(written) :
        LET w == written[i] IN
          /\ DOMAIN w.indexed \subseteq DOMAIN w.raw
          /\ DOMAIN w.indexed \subseteq w.activeKeys
          /\ \A k \in DOMAIN w.indexed : w.indexed[k] = w.raw[k]
          /\ (w.owner # NoOwner /\ DOMAIN w.raw \subseteq w.activeKeys) => w.indexed = w.raw
          /\ w.owner = NoOwner => w.indexed = EmptyMap

\* Three rows were written: one whose raw keys are partly active, one
\* whose raw keys are all active, one without an owner.
C9_Witness ==
    /\ \E i \in 1..Len(written) :
         /\ written[i].owner # NoOwner
         /\ written[i].indexed # EmptyMap
         /\ written[i].indexed # written[i].raw
    /\ \E i \in 1..Len(written) :
         written[i].owner # NoOwner /\ written[i].indexed = written[i].raw
    /\ \E i \in 1..Len(written) :
         written[i].owner = NoOwner /\ written[i].raw # EmptyMap

(***************************************************************************)
(* Properties of the pricing service.                                      *)
(***************************************************************************)

\* A refresh failed: the exchange ended in a transport error, in a status
\* other than success, or in a body that is not a catalog.
RefreshFailed(x) ==
    x.made /\ (x.err \/ x.status # 200 \/ ~(DecodeOk(x.body) /\ x.body.hasPrices))

\* C10: a failed remote pricing fetch leaves the previous price map
\* intact: after a refresh that ended in a transport error, a non-success
\* HTTP status or a body that is not the expected catalog, the map is the
\* map before it and Calculate returns the same costs.
C10_FailedFetchKeepsMap ==
    [][RefreshFailed(prFetch') =>
          /\ pricing' = pricing
          /\ \A m \in Metrics :
               CalculateCost(pricing', aliases', m) = CalculateCost(pricing, aliases, m)]_vars

(***************************************************************************)
(* C11.  Calculate returns the zero cost with ModelAliasFound = FALSE      *)
(* exactly when the model is neither a key of the price map nor an alias   *)
(* whose target is a key; a model that is a key is priced by its own       *)
(* entry even when it is also an alias; and the map the alias lookup read  *)
(* is the map the direct lookup read, which is still the service's map     *)
(* when the call returns, a refresh that ran meanwhile having waited.      *)
(***************************************************************************)
Priced(pr, al, model) ==
    \/ model \in DOMAIN pr
    \/ model \in DOMAIN al /\ al[model] \in DOMAIN pr

C11_UnpricedIffZeroCost ==
    prCost.called =>
        LET m == prCost.metrics
            pr == prCost.seen
        IN /\ pricing = pr
           /\ prCost.cost.ModelAliasFound <=> Priced(pr, aliases, m.Model)
           /\ ~Priced(pr, aliases, m.Model) => prCost.cost = Cost(0, 0, 0, FALSE)
           /\ m.Model \in DOMAIN pr =>
                 prCost.cost = CostOf(m, [ok |-> TRUE, pricing |-> pr[m.Model]])
           /\ (m.Model \notin DOMAIN pr /\ Priced(pr, aliases, m.Model)) =>
                 prCost.cost = CostOf(m, [ok |-> TRUE, pricing |-> pr[aliases[m.Model]]])

\* A Calculate call returned while a refresh waited for the lock with a
\* different map, for a model that is a key of the map and also an alias
\* of a key with other rates.
C11_Witness ==
    /\ prCost.called
    /\ prPc = "lock"
    /\ prNew # pricing
    /\ prCost.metrics.Model \in DOMAIN pricing
    /\ prCost.metrics.Model \in DOMAIN aliases
    /\ aliases[prCost.metrics.Model] \in DOMAIN pricing
    /\ pricing[aliases[prCost.metrics.Model]] # pricing[prCost.metrics.Model]

\* A Calculate call returned the cost of an alias target while a refresh
\* waited for the lock.
C11_WitnessAlias ==
    /\ prCost.called
    /\ prPc = "lock"
    /\ prCost.metrics.Model \notin DOMAIN pricing
    /\ prCost.cost.ModelAliasFound

(***************************************************************************)
(* C12.  When the model is priced, the three costs are non-negative and    *)
(* the total is the input cost plus the output cost.                       *)
(***************************************************************************)
C12_CostsNonNegative ==
    (prCost.called /\ prCost.cost.ModelAliasFound) =>
        /\ prCost.cost.InputCost >= 0
        /\ prCost.cost.OutputCost >= 0
        /\ prCost.cost.TotalCost >= 0
        /\ prCost.cost.TotalCost = prCost.cost.InputCost + prCost.cost.OutputCost

\* The part of C12 that holds: the total is the sum of the two parts.
C12_TotalIsSum ==
    prCost.called =>
        prCost.cost.TotalCost = prCost.cost.InputCost + prCost.cost.OutputCost

(***************************************************************************)
(* C19.  A ResolveProxyKey call whose Authorization value does not start   *)
(* with mdm_pk_ returns passthrough (no credential, no id, no error) in    *)
(* the step it is made: no call is ever at a store query with such a       *)
(* value, and the step that returns leaves both caches and the store as    *)
(* they were.                                                              *)
(***************************************************************************)
StartsWithProxyPrefix(k) == k # << >> /\ Head(k) = "mdm_pk_"

C19_PassthroughTouchesNothing ==
    [][/\ \A c \in Callers : pPc'[c] # "idle" => StartsWithProxyPrefix(pArg'[c].authKey)
       /\ (pRes'.kind # "none" /\ ~StartsWithProxyPrefix(pRes'.authKey)) =>
              /\ pRes'.kind = "passthrough"
              /\ pRes'.cred = "none"
              /\ pRes'.id = "none"
              /\ pPc[pRes'.caller] = "idle"
              /\ pCache' = pCache
              /\ provCache' = provCache
              /\ proxyKeys' = proxyKeys
              /\ mappings' = mappings]_vars

\* A passthrough return while both caches hold an entry and the other
\* caller is at its store query.
C19_Witness ==
    /\ pRes.kind = "passthrough"
    /\ pRes.authKey = <<"x", "mdm_pk_">>
    /\ DOMAIN provCache # {}
    /\ \E h \in ProxyHashes : pCache[h].present
    /\ \E c \in Callers : pPc[c] = "key"

(***************************************************************************)
(* C20.  A call that missed the cache and got its answers from the store   *)
(* returns: ProxyNotFound when there is no row; else ProxyRevoked when the *)
(* row is inactive with a revocation instant; else ProxyInactive when it   *)
(* is inactive; else WrongOwner when the owner differs; else               *)
(* NoProviderMapping when the provider has no mapping; else an error when  *)
(* the token does not decrypt; and the decrypted credential with the id    *)
(* of the row only when none of these is the case.                         *)
(***************************************************************************)
ExpectedKind(row, owner, provider) ==
    CASE ~row.present -> "ProxyNotFound"
      [] row.present /\ ~row.active /\ row.revoked -> "ProxyRevoked"
      [] row.present /\ ~row.active /\ ~row.revoked -> "ProxyInactive"
      [] row.present /\ row.active /\ row.owner # owner -> "WrongOwner"
      [] OTHER ->
           LET mapping == mappings[<<row.id, provider>>]
           IN IF ~mapping.present THEN "NoProviderMapping"
              ELSE IF ~mapping.sound THEN "CipherFail"
              ELSE "ok"

C20_FailureOrder ==
    [][\A c \in Callers :
          (pPc[c] \in {"key", "mapping", "fill"} /\ pRes'.caller = c
              /\ pRes'.kind # "StoreErr") =>
              LET a == pArg[c]
                  row == IF pPc[c] = "key" THEN proxyKeys[HashAPIKey(a.authKey)]
                         ELSE pKey[c]
              IN /\ pRes'.kind = ExpectedKind(row, a.majordomoKeyID, a.provider)
                 /\ pRes'.kind = "ok" =>
                       /\ pRes'.cred = mappings[<<row.id, a.provider>>].plain
                       /\ pRes'.id = row.id
                 /\ pRes'.kind # "ok" => pRes'.cred = "none" /\ pRes'.id = "none"]_vars

\* A call returned WrongOwner for the second key, no mapping of which can
\* be used either (the earlier check decides), while the first key is
\* revoked.
C20_Witness ==
    /\ pRes.kind = "WrongOwner"
    /\ pRes.hash = <<"b", "2">>
    /\ proxyKeys[<<"b", "1">>].revoked

(***************************************************************************)
(* C18.  For every metadata name of the owner, the approx_cardinality      *)
(* the store holds never decreases, from the value it held at startup, in  *)
(* any step of the process: AddValue calls and flushes after any outcome   *)
(* of LoadFromDB.                                                          *)
(***************************************************************************)
C18_CardinalityNeverDecreases ==
    [][\A k \in MetadataKeys : metaKeys'[k].card >= metaKeys[k].card]_vars

\* The part of C18 that holds: the cardinality of a row whose hll_state
\* unmarshals never decreases while the sketch in memory, if there is one,
\* holds the values of the row (it was loaded, or the row held none), and
\* held them when the flush in progress, if there is one, took its copy.
C18_LoadedNeverDecreases ==
    [][\A k \in MetadataKeys :
          (/\ metaKeys[k].sound
           /\ hlls[k].present => metaKeys[k].values \subseteq hlls[k].values
           /\ toFlush[k].present => metaKeys[k].values \subseteq toFlush[k].values) =>
              metaKeys'[k].card >= metaKeys[k].card]_vars

(***************************************************************************)
(* Properties of the request handler.                                      *)
(***************************************************************************)
\* The names the claims forbid: the prefix x-majordomo- and the hop-by-hop
\* set, on lower-cased names.
HasMajordomoPrefix(n) ==
    Len(n) >= 2 /\ LowerSym(n[1]) = "x-majordomo" /\ n[2] = "-"
HopByHopSet ==
    { <<"connection">>, <<"keep-alive">>, <<"proxy-authenticate">>,
      <<"proxy-authorization">>, <<"te">>, <<"trailers">>, <<"transfer-encoding">>,
      <<"upgrade">>, <<"host">>, <<"content-length">> }
ForbiddenUpstream(n) ==
    \/ HasMajordomoPrefix(n)
    \/ ToLower(n) \in HopByHopSet
    \/ ToLower(n) = <<"accept-encoding">>

(***************************************************************************)
(* C13.  The request forwarded upstream carries no header whose            *)
(* lower-cased name starts with x-majordomo-, none of the hop-by-hop set   *)
(* and no accept-encoding, and it carries every other header of the        *)
(* inbound request with all its values.                                    *)
(***************************************************************************)
C13_ForwardedHeaders ==
    hUp.made =>
        /\ \A n \in DOMAIN hUp.Header : ~ForbiddenUpstream(n)
        /\ \A n \in DOMAIN hReq.inbound :
              ~ForbiddenUpstream(n) =>
                  n \in DOMAIN hUp.Header /\ hUp.Header[n] = hReq.inbound[n]

\* The part of C13 that holds: no forbidden header is forwarded.
C13_NoForbiddenForwarded ==
    hUp.made => \A n \in DOMAIN hUp.Header : ~ForbiddenUpstream(n)

(***************************************************************************)
(* C14.  The response written to the caller carries no header with the     *)
(* x-majordomo- prefix, none of the hop-by-hop set and no                  *)
(* content-encoding.                                                       *)
(***************************************************************************)
C14_ResponseHeaders ==
    hOut.written =>
        \A n \in DOMAIN hOut.header :
            /\ ~HasMajordomoPrefix(n)
            /\ ToLower(n) \notin HopByHopSet
            /\ ToLower(n) # <<"content-encoding">>

\* The part of C14 that holds: no header of the hop-by-hop set is written.
C14_NoHopByHopWritten ==
    hOut.written => \A n \in DOMAIN hOut.header : ToLower(n) \notin HopByHopSet

(***************************************************************************)
(* C15.  A request whose operator-key resolution failed is answered with   *)
(* 401 and ends there: nothing is forwarded upstream, no response of the   *)
(* provider is held, logRequest is not started, and no row and no upload   *)
(* are submitted.                                                          *)
(***************************************************************************)
C15_UnauthorizedEndsThere ==
    (hInfo.called /\ hInfo.err) =>
        /\ hPc = "done"
        /\ hOut = HTTPError(401)
        /\ ~hUp.made
        /\ ~hResp.made
        /\ lPc = "none"
        /\ ~lLog.made /\ ~lRow.made /\ ~lUpload.made

\* A request with a key that is not in the store has been answered.
C15_Witness ==
    /\ hInfo.called /\ hInfo.err
    /\ hOut.written /\ hOut.status = 401

ValuesOf(f) == { f[x] : x \in DOMAIN f }
TextOfRow(row) ==
    { row.ProviderAPIKeyHash, row.RequestBody, row.ResponseBody, row.BodyS3Key }
    \cup DOMAIN row.RawMetadata \cup ValuesOf(row.RawMetadata)
TextOfUpload(u) ==
    { u.Key, u.RequestBody, u.ResponseBody }
    \cup ValuesOf(u.RequestHeaders) \cup ValuesOf(u.ResponseHeaders)

C17_KeyNeverPersisted ==
    LET key == HeaderGet(hReq.inbound, <<"X-Majordomo", "-", "Key">>)
    IN key # << >> =>
          /\ lRow.made => key \notin TextOfRow(lRow)
          /\ lUpload.made => key \notin TextOfUpload(lUpload)

\* The part of C17 that holds: the row does not hold the key.
C17_KeyNotInRow ==
    LET key == HeaderGet(hReq.inbound, <<"X-Majordomo", "-", "Key">>)
    IN (key # << >> /\ lRow.made) => key \notin TextOfRow(lRow)

(***************************************************************************)
(* The verdicts of ResolveAPIKey on a cache miss.                          *)
(***************************************************************************)

\* The verdict the store outcome key maps to, and whether it is cached as a
\* positive entry, as resolver.go lines 64-93 decide it.
MissVerdict(key) ==
    IF ~key.present THEN [kind |-> "InvalidKey", info |-> "none", isValid |-> FALSE]
    ELSE IF ~key.active
    THEN [kind |-> IF key.revoked THEN "Revoked" ELSE "Inactive",
          info |-> "none", isValid |-> FALSE]
    ELSE [kind |-> "ok", info |-> key.id, isValid |-> TRUE]

\* C21: on a cache miss ResolveAPIKey maps the store outcome to a verdict
\* and caches it: the empty key fails InvalidKey without a lookup; a key not
\* found is cached negative and fails InvalidKey; an inactive record with a
\* revocation instant is cached negative and fails Revoked; an inactive one
\* without is cached negative and fails Inactive; an active record is cached
\* positive and its info is returned.
C21_MissVerdictCached ==
    [][ \A c \in Callers :
          /\ ResolveAPIKey(c, EmptyKey) =>
                /\ rRes'.caller = c /\ rRes'.kind = "InvalidKey"
                /\ rPc'[c] = "idle" /\ rCache' = rCache
          /\ (rPc[c] = "fill" /\ rPc'[c] = "idle") =>
                LET h == HashAPIKey(rArg[c])
                    v == MissVerdict(rKey[c])
                IN /\ rRes'.caller = c
                   /\ rRes'.kind = v.kind
                   /\ rRes'.info = v.info
                   /\ rCache'[h] = [present |-> TRUE, isValid |-> v.isValid,
                                    info |-> v.info, expiresAt |-> now + CacheTTL]
      ]_vars

\* A revoked record was read on a miss: the call failed Revoked and left a
\* negative entry; and an active one was read and left a positive entry.
C21_Witness ==
    /\ rRes.kind = "Revoked"
    /\ rCache[rRes.hash].present /\ ~rCache[rRes.hash].isValid
    /\ rCache[rRes.hash].expiresAt = now + CacheTTL
    /\ \E h \in OperatorHashes : rCache[h].present /\ rCache[h].isValid

(***************************************************************************)
(* Properties of provider detection.                                       *)
(***************************************************************************)
ProviderNames ==
    { "openai", "anthropic", "gemini", "gemini-openai", "anthropic-openai", "azure",
      "bedrock" }
ProviderHeader == <<"x-majordomo", "-", "provider">>
OpenAIPrefixes ==
    { <<"/v1/chat/completions">>, <<"/v1/completions">>, <<"/v1/embeddings">>,
      <<"/v1/responses">> }

\* The provider the rules of the claim give a path, the rules read as a list
\* in which the first that applies decides.
PathRule(path) ==
    IF \E p \in OpenAIPrefixes : HasPrefix(path, p) THEN "openai"
    ELSE IF HasPrefix(path, <<"/v1/messages">>) THEN "anthropic"
    ELSE IF \E w \in {<<"generateContent">>, <<"streamGenerateContent">>} : Contains(path, w)
    THEN "gemini"
    ELSE "openai"

\* C22: provider detection.  When the x-majordomo-provider header is there,
\* its value, compared without regard to case, decides the provider (a value
\* that names no provider gives unknown) and the path is ignored; otherwise
\* a path with prefix /v1/chat/completions, /v1/completions, /v1/embeddings
\* or /v1/responses gives openai, else prefix /v1/messages gives anthropic,
\* else a path containing generateContent or streamGenerateContent gives
\* gemini, and any other path gives openai.
C22_Detection ==
    dInfo # "none" =>
        IF ProviderHeader \in DOMAIN dHeaders
        THEN LET v == dHeaders[ProviderHeader]
                 n == ToLower(v)
             IN /\ dInfo = (IF Len(n) = 1 /\ n[1] \in ProviderNames THEN n[1] ELSE "unknown")
                /\ \A p \in DetectPaths : Detect(p, dHeaders) = dInfo
                /\ \A w \in ExplicitProviders :
                      ToLower(w) = n => Detect(dPath, (ProviderHeader :> w)) = dInfo
        ELSE dInfo = PathRule(dPath)

\* The explicit header, written in another case, decided against the path.
C22_Witness ==
    /\ dInfo = "anthropic"
    /\ ProviderHeader \in DOMAIN dHeaders
    /\ dHeaders[ProviderHeader] # ToLower(dHeaders[ProviderHeader])
    /\ HasPrefix(dPath, <<"/v1/chat/completions">>)

\* Without the header, a path with the prefix of one rule and the substring
\* of a later one was decided by the prefix.
C22_WitnessPath ==
    /\ dInfo = "anthropic"
    /\ ProviderHeader \notin DOMAIN dHeaders
    /\ Contains(dPath, <<"generateContent">>)

(***************************************************************************)
(* Properties of the request translation.                                  *)
(***************************************************************************)
SystemIndexes(msgs) == { i \in 1..Len(msgs) : msgs[i].role = "system" }
Min(S) == CHOOSE i \in S : \A j \in S : i <= j
Without(msgs, i) == SubSeq(msgs, 1, i - 1) \o SubSeq(msgs, i + 1, Len(msgs))

\* C23: the translation lifts the first system-role message of the messages
\* array into the top-level system field and removes that message from the
\* array, keeps the other messages in order, sets max_tokens to the
\* request's value or to 4096 when absent, and returns the path
\* /v1/messages, for every messages array, with no or with several
\* system-role messages too.
C23_FirstSystemLifted ==
    (tOut.called /\ ~tOut.err) =>
        LET msgs == tBody.messages
            S == SystemIndexes(msgs)
        IN /\ tOut.path = <<"/v1/messages">>
           /\ tOut.body.max_tokens =
                 (IF tBody.max_tokens.present THEN tBody.max_tokens.value ELSE 4096)
           /\ IF S = {}
              THEN tOut.body.system = "" /\ tOut.body.messages = msgs
              ELSE /\ tOut.body.system = msgs[Min(S)].content
                   /\ tOut.body.messages = Without(msgs, Min(S))

\* The part of C23 that holds: the same for arrays with at most one
\* system-role message.
C23_AtMostOneSystem ==
    Cardinality(SystemIndexes(IF tBody.valid THEN tBody.messages ELSE << >>)) <= 1
        => C23_FirstSystemLifted

\* A request with one system-role message and no max_tokens was translated.
C23_WitnessOne ==
    /\ tOut.called /\ ~tOut.err
    /\ Cardinality(SystemIndexes(tBody.messages)) = 1
    /\ Len(tBody.messages) = MaxMessages
    /\ ~tBody.max_tokens.present

(***************************************************************************)
(* Properties of the Anthropic response parser.                            *)
(***************************************************************************)
\* The three input counts of the body, a missing one being zero.
RawInput == UsageField(aBody.usage, "input_tokens")
CacheRead == UsageField(aBody.usage, "cache_read_input_tokens")
CacheCreation == UsageField(aBody.usage, "cache_creation_input_tokens")

\* C24: the Anthropic parser reports input_tokens as raw input_tokens +
\* cache_read_input_tokens + cache_creation_input_tokens, cached_tokens as
\* cache_read_input_tokens, cache_creation_tokens as
\* cache_creation_input_tokens and output_tokens unchanged, for every usage
\* object, a missing field counting as zero.
C24_InputIsSum ==
    (aMetrics.called /\ ~aMetrics.err) =>
        /\ aMetrics.InputTokens = RawInput + CacheRead + CacheCreation
        /\ aMetrics.CachedTokens = CacheRead
        /\ aMetrics.CacheCreationTokens = CacheCreation
        /\ aMetrics.OutputTokens = UsageField(aBody.usage, "output_tokens")

\* The part of C24 that holds: the same for the usage objects whose three
\* input counts add up to a number an int holds.
C24_InputIsSumWithinInt ==
    (aMetrics.called /\ ~aMetrics.err /\ RawInput + CacheRead + CacheCreation <= MaxInt)
        => C24_InputIsSum

\* A usage object with the three input counts positive and the output count
\* missing was parsed, the sum fitting an int.
C24_WitnessWithinInt ==
    /\ aMetrics.called /\ ~aMetrics.err
    /\ RawInput > 0 /\ CacheRead > 0 /\ CacheCreation > 0
    /\ RawInput + CacheRead + CacheCreation <= MaxInt
    /\ "output_tokens" \notin DOMAIN aBody.usage

(***************************************************************************)
(* Properties of the secret box.                                           *)
(***************************************************************************)

\* C25: the secret-box round trip: for every plaintext p, the empty one
\* included, and a store built from a valid key, Decrypt(Encrypt(p))
\* returns p without error.
C25_RoundTrip ==
    sOut.called => (~sOut.err /\ sOut.text = sPlain)

\* A plaintext of the greatest length, and the empty one, went through
\* Encrypt and Decrypt, the sealed text not being the plaintext.
C25_Witness ==
    /\ sOut.called /\ Len(sPlain) = MaxPlain
    /\ Len(sBox.text) = NonceSize + MaxPlain + 1
C25_WitnessEmpty ==
    /\ sOut.called /\ sPlain = << >>
    /\ Len(sBox.text) = NonceSize + 1

(***************************************************************************)
(* Properties of the caches over time.                                     *)
(***************************************************************************)
\* The age of the credential cached for the first proxy key and provider p:
\* the time since it was put in the cache, which is no more than the time
\* since it was read from the store and decrypted.
CachedAge(p) == now - provReadAt.at[ProvCacheKey(HashAPIKey(<<"mdm_pk_", "1">>), p)]

\* A call that returns the credential from the cache.
ResolvedFromCache(p) ==
    /\ ResolveProxyKey("c1", <<"mdm_pk_", "1">>, p, "A")
    /\ pRes'.kind = "ok" /\ pRes'.cached

\* C26: the TTL bounds the staleness of the proxy credential cache: every
\* credential ResolveProxyKey returns from the cache was read from the store
\* and decrypted at most one TTL before, for every sequence of resolves of
\* the same proxy key for different providers and every change of the
\* provider mapping in the store in between.
C26_CachedAtMostTTLOld ==
    [][ \A p \in Providers : ResolvedFromCache(p) => CachedAge(p) <= CacheTTL ]_vars

\* The part of C26 that holds: a credential is returned from the cache only
\* before the expiry of the record of its proxy key, which is one TTL after
\* the last fill for any provider.
C26_RecordAtMostTTLOld ==
    [][ \A p \in Providers :
          ResolvedFromCache(p) =>
              \E q \in Providers :
                  /\ ProvCacheKey(HashAPIKey(<<"mdm_pk_", "1">>), q) \in DOMAIN provReadAt.at
                  /\ CachedAge(q) < CacheTTL ]_vars

\* A step in which the call of caller c1 for the first operator key returns
\* a verdict without having queried the store.
FirstKeyHash == HashAPIKey(<<"mdm_sk_", "1">>)
ServedFromOperatorCache ==
    /\ ResolveAPIKey("c1", <<"mdm_sk_", "1">>)
    /\ rPc'["c1"] = "idle"

\* The operator-key cache: a verdict is served from the cache only while the
\* entry is live, the entry written after a store read expires one TTL after
\* it is written, and a call that finds an entry that is not live goes to
\* the store.  strict: live means the time is before the expiry; otherwise,
\* not after it.
OperatorCacheRules(strict) ==
    LET e == rCache[FirstKeyHash]
        live == e.present /\ (IF strict THEN now < e.expiresAt ELSE now <= e.expiresAt)
    IN /\ ServedFromOperatorCache => live
       /\ (ResolveAPIKey("c1", <<"mdm_sk_", "1">>) /\ ~live) => rPc'["c1"] = "db"
       /\ (rPc["c1"] = "fill" /\ rPc'["c1"] = "idle") =>
             (rCache'[FirstKeyHash].present /\ rCache'[FirstKeyHash].expiresAt = now + CacheTTL)

\* The active-keys cache: a set is served without a store query only while
\* the time is before the expiry of the entry, and it is the set of the
\* entry; a call that finds no entry or an expired one queries the store;
\* an entry that is written expires one TTL after it is written.
ActiveKeysCacheRules ==
    GetActiveKeysCall =>
        LET live == akCache.present /\ now < akCache.expiresAt
        IN /\ ~akRes'.queried => (live /\ akRes'.keys = akCache.keys /\ akCache' = akCache)
           /\ ~live => akRes'.queried
           /\ akCache' # akCache => (akCache'.present /\ akCache'.expiresAt = now + CacheTTL)

ReflectedInStore(k) ==
    /\ metaKeys[k].registered
    /\ metaKeys[k].sound
    /\ metaKeys[k].values = hlls[k].values

\* Flush is between its snapshot and the end of its writes, with key k in
\* toFlush.
InFlush(k) == fPc = "persist" /\ toFlush[k].present

\* C28: no update of a sketch is lost while the process lives: in every
\* reachable state an entry whose content or request-count delta the store
\* does not reflect is marked dirty or is part of a flush in progress; this
\* covers the entry whose write failed or matched no row, which is to be
\* flushed again on a later tick.
C28_NoUpdateLost ==
    \A k \in MetadataKeys :
        (hlls[k].present /\ (~ReflectedInStore(k) \/ hlls[k].count > 0))
            => (hlls[k].dirty \/ InFlush(k))

\* C28, the part about Add: an AddValue always leaves the entry dirty, also
\* when it lands after a flush took its snapshot, and an entry with a count
\* delta is dirty.
C28_AddRedirties ==
    [][\A k \in MetadataKeys, v \in MetadataValues :
          HLLAddValue(k, v) => (hlls'[k].dirty /\ hlls'[k].count > 0)]_vars
C28_DeltaIsDirty ==
    \A k \in MetadataKeys : hlls[k].count > 0 => hlls[k].dirty

\* C29: every access to the inner state of a sketch is synchronized: the
\* insert of AddValue into the sketch of a key never happens while Flush,
\* having released the lock, is marshalling and estimating the sketches of
\* toFlush with that key among them.
C29_SketchAccessSynchronized ==
    [][\A k \in MetadataKeys, v \in MetadataValues :
          HLLAddValue(k, v) => ~InFlush(k)]_vars

\* The AddValue calls made for key k: one for every row written with an
\* owner and the key, but for the row whose AddValue loop is still to run.
AddCalls(k) ==
    Cardinality({ i \in DOMAIN written :
                    /\ written[i].owner # NoOwner
                    /\ k \in DOMAIN written[i].raw
                    /\ ~(wPc = "add" /\ wRow.id = written[i].id) })

\* The request count of key k: what the flushes added to the row, and the
\* deltas still in memory (in the entry, in the copy of a flush at work).
CountedRequests(k) ==
    metaKeys[k].count + hlls[k].count + (IF InFlush(k) THEN toFlush[k].count ELSE 0)

\* C30: each Add is counted exactly once in the persisted request_count:
\* when no write of a flush fails, what the flushes added to the row of a
\* key, with the deltas still to be flushed, equals the number of AddValue
\* calls for the key, for every interleaving of AddValue and Flush and
\* every key that has a row.
C30_EachAddCountedOnce ==
    \A k \in MetadataKeys :
        metaKeys[k].registered => CountedRequests(k) = AddCalls(k)

\* C30, the parts that hold: no Add is counted twice, and no Add is missed
\* by a flush that finds the row of its key.
C30_NoAddCountedTwice ==
    \A k \in MetadataKeys : CountedRequests(k) <= AddCalls(k)
C30_CountedWhileRowExists ==
    [][\A k \in MetadataKeys :
          metaKeys[k].registered =>
              (AddCalls(k) - CountedRequests(k))' = AddCalls(k) - CountedRequests(k)]_vars

(***************************************************************************)
(* Properties of the operator-key resolver: usage bump, cached verdicts.   *)
(***************************************************************************)
\* C31: every ResolveAPIKey call that returns a record, from the store or
\* from the cache, has started the goroutine that bumps last_used_at and
\* request_count of the record.
C31_SuccessBumps ==
    rRes.kind = "ok" => rBump[rRes.caller]

\* C31, the part that holds: a call that returns a record read from the
\* store has started the bump, and returns in the step that starts it.
C31_StoreSuccessBumps ==
    [][\A c \in Callers :
          (ResolveAPIKeyFill(c) /\ rRes'.kind = "ok") =>
              (rBump'[c] /\ rPc'[c] = "idle")]_vars

\* Lines 64-75: the failure kind a resolve reports for a row that is not
\* an active one.  Such a row never changes (only an active row is
\* revoked), so this is the kind the resolve that cached a negative verdict
\* for the digest reported.
FailureKindOf(key) ==
    IF ~key.present THEN "InvalidKey"
    ELSE IF key.revoked THEN "Revoked" ELSE "Inactive"

\* A ResolveAPIKey(c, k) call finds an unexpired entry for its key.
CacheHit(c, k) ==
    /\ k # EmptyKey
    /\ getFromCache(HashAPIKey(k)).present
    /\ ResolveAPIKey(c, k)

\* C32: a repeated ResolveAPIKey of a key whose cached verdict is unexpired
\* returns the cached verdict without a store query, and for a negative
\* verdict it reports the failure kind of the resolve that cached it.
C32_CachedVerdictRepeated ==
    [][\A c \in Callers, k \in OperatorKeys :
          CacheHit(c, k) =>
              LET cached == getFromCache(HashAPIKey(k)) IN
                /\ rPc'[c] = "idle"
                /\ rRes'.caller = c
                /\ IF cached.isValid
                   THEN rRes'.kind = "ok" /\ rRes'.info = cached.info
                   ELSE rRes'.kind = FailureKindOf(apiKeys[HashAPIKey(k)])]_vars

\* C32, the part that holds: the hit returns at once, a positive verdict
\* with the cached record, a negative one with a failure.
C32_HitAnsweredFromCache ==
    [][\A c \in Callers, k \in OperatorKeys :
          CacheHit(c, k) =>
              LET cached == getFromCache(HashAPIKey(k)) IN
                /\ rPc'[c] = "idle"
                /\ rRes'.caller = c
                /\ IF cached.isValid
                   THEN rRes'.kind = "ok" /\ rRes'.info = cached.info
                   ELSE rRes'.kind = "Inactive"]_vars

\* A negative entry always stands for a row that is not active.
C32_NegativeEntryMeansNotActive ==
    \A h \in OperatorHashes :
        (rCache[h].present /\ ~rCache[h].isValid) =>
            ~(apiKeys[h].present /\ apiKeys[h].active)

(***************************************************************************)
(* Properties of the active-keys cache.                                    *)
(***************************************************************************)
\* C33: after InvalidateAPIKey has returned, no GetActiveKeys call that
\* starts later returns a set that was read from the store before the
\* invalidation, whatever a call in flight at the invalidation does.
C33_NoSetFromBeforeInvalidation ==
    (akRes.called /\ ~akRes.queried) => ~akStale.cached

\* C33, the part that holds: with no call in flight at the invalidation,
\* the next call queries the store.
C33_InvalidationForcesRead ==
    [][(akCache = NoActiveKeys /\ akPc = "idle" /\ GetActiveKeysBegin) =>
          (akPc' = "fetch" /\ ~akRes'.called)]_vars

\* C34: any store error during an active-keys lookup, a failed query or a
\* failed row iteration, makes GetActiveKeys return an empty set and a nil
\* error.
C34_StoreErrorGivesEmptySet ==
    (akRes.called /\ akRes.failed) => (akRes.keys = {} /\ ~akRes.err)

\* C34, the part that holds: a call that returns an error returns no key,
\* so the writer, which drops the error, indexes nothing.
C34_ErrorReturnsNoKeys ==
    (akRes.called /\ akRes.err) => akRes.keys = {}

(***************************************************************************)
(* Properties of the log writer: sketches and descriptors follow the       *)
(* insert.                                                                 *)
(***************************************************************************)
\* The row the writer holds is the row it has just inserted, and it has an
\* owner.
InsertedRow(r) ==
    /\ r # NoRow
    /\ r.owner # NoOwner
    /\ Len(written) > 0
    /\ written[Len(written)].id = r.id
    /\ written[Len(written)].raw = r.raw

\* The writer's receive step whose INSERT fails.
InsertFails == WriterReceive /\ written' = written

\* C35: sketches are updated and descriptors registered only after the row
\* was inserted.  A failed insert leaves the writer at its loop with no Add
\* and no descriptor for the row; an inserted row of an owner gets exactly
\* one Add per raw metadata entry, with the value of the entry; a
\* descriptor is created only for a key of an inserted row, and a
\* descriptor that exists is left as it is by the registration.
C35_AfterInsertOnly ==
    [][/\ InsertFails => (wPc' = "loop" /\ wRow' = NoRow /\ hlls' = hlls /\ metaKeys' = metaKeys)
       /\ \A k \in MetadataKeys :
            hlls'[k].count > hlls[k].count =>
                /\ wPc = "add" /\ InsertedRow(wRow) /\ wPc' = "register"
                /\ k \in DOMAIN wRow.raw
                /\ hlls'[k].count = hlls[k].count + 1
                /\ hlls'[k].values = hlls[k].values \cup {wRow.raw[k]}
       /\ (wPc = "add" /\ wPc' # "add") =>
             \A k \in DOMAIN wRow.raw : hlls'[k].count = hlls[k].count + 1
       /\ \A k \in MetadataKeys :
            (metaKeys'[k].registered /\ ~metaKeys[k].registered) =>
                /\ wPc = "register" /\ InsertedRow(wRow)
                /\ k \in DOMAIN wRow.raw
       /\ (wPc = "register" /\ wPc' # "register") =>
             /\ wPc' = "loop"
             /\ \A k \in MetadataKeys :
                  metaKeys[k].registered => metaKeys'[k] = metaKeys[k]]_vars

\* The writer is in its Add or register step only for the inserted row.
C35_StepsFollowInsert ==
    (wPc \in {"add", "register"}) => InsertedRow(wRow)

\* Two rows of the owner with the key env were inserted, added and
\* registered, and the insert of a third row failed.
C35_Witness ==
    /\ wPc = "loop"
    /\ Cardinality({ i \in DOMAIN written :
                       written[i].owner # NoOwner /\ "env" \in DOMAIN written[i].raw }) = 2
    /\ Len(handled) = 3
    /\ metaKeys["env"].registered
    /\ hlls["env"].present

(***************************************************************************)
(* Properties of the serve command.                                        *)
(***************************************************************************)
\* The closing calls of graceful shutdown were made: the uploader was told
\* to stop, the final flush of the sketches ran and the store was closed.
ClosingStepsRan ==
    /\ svS3 => uDone
    /\ prDone
    /\ done /\ hllDone
    /\ fPc = "exited"
    /\ closePc = "closed"

\* C36: after a termination signal the closing steps of graceful shutdown
\* have run on every exit path of the serve command, the one where the
\* requests in flight do not finish within the grace period included.
C36_ClosingStepsOnEveryExit ==
    (svPc \in {"returned", "exitShutdownError"}) => ClosingStepsRan

\* C36, the part that holds: when main returns, the closing calls were made.
C36_ClosingStepsOnReturn ==
    svPc = "returned" => ClosingStepsRan

(***************************************************************************)
(* Properties of the rows the handler submits.                             *)
(***************************************************************************)
\* The first n symbols of a text, or all of it when it is shorter.
FirstBytes(text, n) == [i \in 1..(IF Len(text) < n THEN Len(text) ELSE n) |-> text[i]]

\* C37: a request whose forward returned an upstream response has, once
\* its logRequest is over, one submitted row with the status of the
\* response and with an error message, the first 500 bytes of the body, iff
\* the status is 400 or above; a request answered by the handler itself
\* with 401, 400 or 502 starts no logRequest and submits no row.
C37_OneRowPerUpstreamResponse ==
    /\ (hPc = "done" /\ ~hResp.made) => (lPc = "none" /\ ~lRow.made)
    /\ (hPc = "done" /\ hResp.made) => lPc # "none"
    /\ lPc = "done" =>
         /\ lRow.made
         /\ hResp.made /\ ~hResp.err
         /\ lRow.StatusCode = hResp.StatusCode
         /\ lRow.ErrorMessage.set <=> (hResp.StatusCode >= 400)
         /\ lRow.ErrorMessage.set =>
              lRow.ErrorMessage.text = FirstBytes(hResp.Body.bytes, ErrorMessageLimit)
    /\ lRow.made => lPc = "done"

\* C37, exactly one: the submitted row of a request changes only when
\* logRequest submits it, once, and when the next request is taken.
C37_RowSubmittedOnce ==
    [][ lRow' # lRow =>
          \/ ~lRow.made /\ lRow'.made /\ lPc = "enqueue" /\ lPc' = "done"
          \/ lRow' = NoRequestLog /\ hPc' = "idle" ]_vars

\* A row was submitted for an upstream error whose body is longer than an
\* error message.
C37_Witness ==
    /\ lRow.made
    /\ lRow.ErrorMessage.set
    /\ Len(hResp.Body.bytes) > ErrorMessageLimit
    /\ Len(lRow.ErrorMessage.text) = ErrorMessageLimit

\* The caller was answered 400 by the handler and no row was submitted.
C37_WitnessRefused ==
    hPc = "done" /\ hOut.status = 400 /\ ~hResp.made /\ hInfo.called /\ ~hInfo.err

(***************************************************************************)
(* Properties of the rewriting the handler does.                           *)
(***************************************************************************)
\* The request forwarded upstream has the body and the path it came with.
ForwardedAsReceived == hUp.Body = hReq.body /\ hUp.Path = hReq.path

\* The Authorization header forwarded upstream is the one that came.
AuthorizationKept ==
    /\ (<<"Authorization">> \in DOMAIN hUp.Header) <=> (<<"Authorization">> \in DOMAIN hReq.inbound)
    /\ <<"Authorization">> \in DOMAIN hUp.Header =>
         hUp.Header[<<"Authorization">>] = hReq.inbound[<<"Authorization">>]

\* The caller was sent an upstream response.
UpstreamReturned == hOut.written /\ hResp.made /\ hPc = "done"

\* The caller was sent the body with Content-Encoding: gzip.
SentGzip ==
    /\ <<"Content-Encoding">> \in DOMAIN hOut.header
    /\ hOut.header[<<"Content-Encoding">>] = << <<"gzip">> >>

\* The request side of C38 and the translation of the response: a request
\* of another provider is forwarded with its body, path and Authorization
\* as received, a request whose translation failed with its body and path
\* as received, and the response is translated only for anthropic_openai
\* with a status below 400, and is left alone when its translation fails.
RewritingOfRequestConfined ==
    /\ (hUp.made /\ ~IsTranslationRequired(hReq.provider)) =>
          (ForwardedAsReceived /\ AuthorizationKept)
    /\ (hUp.made /\ IsTranslationRequired(hReq.provider) /\ ~hReq.body.valid) =>
          ForwardedAsReceived
    /\ (hResp.made /\ hResp.Body # hResp.upstream) =>
          (IsTranslationRequired(hReq.provider) /\ hResp.StatusCode < 400)
    /\ (hResp.made /\ ~hResp.upstream.doc.valid) => hResp.Body = hResp.upstream

\* C38: rewriting is confined to anthropic_openai: for every other provider
\* the forwarded body, path and Authorization are the inbound ones and the
\* body returned to the caller equals the upstream body; a failed request
\* translation forwards the original; the response is translated only below
\* 400 and is returned unchanged when its translation fails.
C38_RewritingConfined ==
    /\ RewritingOfRequestConfined
    /\ (UpstreamReturned /\ ~IsTranslationRequired(hReq.provider)) =>
          hOut.body = hResp.upstream
    /\ (UpstreamReturned /\ ~hResp.upstream.doc.valid) => hOut.body = hResp.upstream

\* C38 as the code has it: the body returned to the caller is the upstream
\* body, or the gzip compression of it when the response is sent with
\* Content-Encoding: gzip.
C38_RewritingConfinedUpToGzip ==
    /\ RewritingOfRequestConfined
    /\ (UpstreamReturned /\ (~IsTranslationRequired(hReq.provider) \/ ~hResp.upstream.doc.valid)) =>
          /\ ~SentGzip => hOut.body = hResp.upstream
          /\ SentGzip => hOut.body = GzipCompress(hResp.upstream)

\* A translated response was returned for a translated request.
C38_Witness ==
    /\ UpstreamReturned
    /\ IsTranslationRequired(hReq.provider)
    /\ hUp.Body # hReq.body
    /\ hUp.Path = <<"/v1/messages">>
    /\ hResp.Body # hResp.upstream

\* A response of another provider was returned compressed.
C38_WitnessGzip ==
    /\ UpstreamReturned
    /\ ~IsTranslationRequired(hReq.provider)
    /\ SentGzip
    /\ hOut.body = GzipCompress(hResp.upstream)

\* A request whose translation failed was forwarded.
C38_WitnessFailedTranslation ==
    /\ hUp.made
    /\ IsTranslationRequired(hReq.provider)
    /\ ~hReq.body.valid
    /\ <<"X-Api-Key">> \in DOMAIN hUp.Header

(***************************************************************************)
(* Properties of the pointer to the archived bodies.                       *)
(***************************************************************************)
\* C39: a submitted row that records a body_s3_key refers to an upload
\* that Upload put into the upload channel; the row of a request whose
\* upload was dropped carries no pointer.
C39_PointerMeansAccepted ==
    (lRow.made /\ lRow.BodyS3Key # << >>) => (lUpload.made /\ lUpload.accepted)

\* C39, the part that holds: a recorded pointer is the key of an upload
\* that was handed to Upload.
C39_PointerMeansUploadMade ==
    (lRow.made /\ lRow.BodyS3Key # << >>) =>
        (lUpload.made /\ lUpload.Key = lRow.BodyS3Key /\ hCfg = "s3")

(***************************************************************************)
(* Properties of a ResolveProxyKey call that fails.                        *)
(***************************************************************************)
\* The errors ResolveProxyKey returns.
ProxyFailures ==
    { "StoreErr", "ProxyNotFound", "ProxyRevoked", "ProxyInactive", "WrongOwner",
      "NoProviderMapping", "CipherFail" }

\* C40: the step in which a ResolveProxyKey call returns an error leaves
\* the record cache and the credential cache as they were, and the caches
\* change only when a call that found a usable credential stores it and
\* returns it, or on an invalidation.
C40_FailedResolveLeavesCaches ==
    [][ /\ pRes'.kind \in ProxyFailures => (pCache' = pCache /\ provCache' = provCache)
        /\ (pCache' # pCache \/ provCache' # provCache) =>
              \/ /\ pRes'.kind = "ok" /\ ~pRes'.cached
                 /\ pPc[pRes'.caller] = "fill"
              \/ pPc' = pPc /\ pRes' = NoProxyResult ]_vars

\* C40, its consequence: every entry of the credential cache is the
\* credential of a mapping that is in the store and decrypts, and has its
\* record in the record cache unless that was invalidated, so no call is
\* answered from an entry a failed resolve made.
C40_EntriesFromSuccess ==
    /\ \A k \in DOMAIN provCache :
         \E h \in ProxyHashes, p \in Providers :
            /\ k = ProvCacheKey(h, p)
            /\ mappings[<<ProxyIdOf(h), p>>].present
            /\ DecryptOk(mappings[<<ProxyIdOf(h), p>>])
            /\ provCache[k] = Decrypt(mappings[<<ProxyIdOf(h), p>>])
    /\ (pRes.kind = "ok" /\ pRes.cached) =>
          /\ mappings[<<pRes.id, CHOOSE p \in Providers :
                           ProvCacheKey(pRes.hash, p) \in DOMAIN provCache>>].present
          /\ pRes.id = ProxyIdOf(pRes.hash)

\* A call failed at Decrypt while the caches held entries of earlier calls.
C40_Witness ==
    /\ pRes.kind = "CipherFail"
    /\ DOMAIN provCache # {}
    /\ \E h \in ProxyHashes : pCache[h].present

====
